---- MODULE Spec2Model ----
(***************************************************************************)
(* Model of the task board's client-side task store (the useTasks hook):   *)
(* the reducer, the paginated per-status loads, the optimistic moveTask,   *)
(* the count refresh, the filtersChanged effect and the debounced realtime *)
(* handler, run against a backend that answers the store's remote calls.   *)
(***************************************************************************)
EXTENDS Integers, Sequences, FiniteSets, TLC

\* ------------------------------------------------------------- bounds
\* rows held by the backend
NTasks == 3
\* loadMoreTasks invocations whose fetches are in flight at the same time
MaxLoads == 1
\* the same, where the specification is about loads that overlap
MaxOverlap == 2
\* update_task_status calls in flight at the same time
MaxUpdates == 1
\* fetchStatusWiseCounts invocations in flight at the same time
MaxCounts == 1
\* the page size a user picks in the filter bar (the other choice is "no limit")
SmallLimit == 2

\* clock ticks in one debounce window
TicksPerWindow == 2
\* calls the store's callers make in one run (setters, loadMoreTasks, moveTask,
\* realtime events)
MaxCalls == 3
\* calls the Discard page's callers make in one run (setters, scrolls,
\* realtime events)
MaxPageCalls == 3
\* the task ids the modal is opened for
MaxModalTasks == 2
\* calls the modal's parent, its user and other clients make in one run
MaxModalCalls == 4
\* rows the comments table holds at most
MaxComments == 2
\* calls in one run of the specification that is checked for liveness
MaxLiveCalls == 2
\* the paging scenario: matching rows in the backend, the page size picked, and
\* the loadMoreTasks calls made
ScenarioRows == 25
ScenarioLimit == 10
MaxPagingCalls == 4
\* rows of the comments table when the modal draws the comment thread
MaxThread == 3
\* rows of the projects table when the category data is loaded
MaxCategoryRows == 3
\* actions dispatched to the reducer in one run
MaxDispatch == 3
\* calls of loadMoreTasks and moveTask in a run of the board
MaxBoardCalls == 4
MaxQueryCalls == 3
MaxAnyThread == 4

\* ---------------------------------------------------- program constants
PAGE_SIZE == 10

\* the wait of the debounced realtime handler, in milliseconds
DebounceWait == 1000

\* a nullable value is <<>> (null) or <<v>>
Null == <<>>

Some(v) == <<v>>

statusKeyArray == <<"to-do", "in-progress", "done">>

StatusKey == {"to-do", "in-progress", "done"}

statusKeyToStatusLabel(key) ==
    IF key = "to-do" THEN "To Do"
    ELSE IF key = "in-progress" THEN "In Progress" ELSE "Done"

StatusLabels == {statusKeyToStatusLabel(k) : k \in StatusKey}

\* ------------------------------------------------------------ reducer
NoRange == [from |-> Null, to |-> Null]

initialState ==
    [ tasksByStatus      |-> [k \in StatusKey |-> <<>>],
      statusFilter       |-> Null,
      categoryFilter     |-> Null,
      subcategoryFilter  |-> Null,
      dateRange          |-> NoRange,
      limit              |-> Null,
      loading            |-> FALSE,
      searchQuery        |-> Null,
      pageByStatus       |-> [k \in StatusKey |-> 0],
      hasMoreByStatus    |-> [k \in StatusKey |-> TRUE],
      totalCountByStatus |-> [k \in StatusKey |-> 0],
      filtersChanged     |-> FALSE,
      selectedCountries  |-> <<>>,
      countryOptions     |-> <<>>,
      hourlyBudgetType   |-> Null,
      priceRange         |-> NoRange ]

reducer(s, a) ==
    CASE a.type = "SET_TASKS_BY_STATUS" ->
           [s EXCEPT !.tasksByStatus = a.payload]
      [] a.type = "UPDATE_TASKS_FOR_STATUS" ->
           [s EXCEPT !.tasksByStatus[a.payload.status] = a.payload.tasks]
      [] a.type = "SET_STATUS_FILTER" ->
           [s EXCEPT !.statusFilter = a.payload, !.filtersChanged = TRUE]
      [] a.type = "SET_CATEGORY_FILTER" ->
           [s EXCEPT !.categoryFilter = a.payload, !.filtersChanged = TRUE]
      [] a.type = "SET_SUBCATEGORY_FILTER" ->
           [s EXCEPT !.subcategoryFilter = a.payload, !.filtersChanged = TRUE]
      [] a.type = "SET_DATE_RANGE" ->
           [s EXCEPT !.dateRange = a.payload, !.filtersChanged = TRUE]
      [] a.type = "SET_LIMIT" ->
           [s EXCEPT !.limit = a.payload, !.filtersChanged = TRUE]
      [] a.type = "SET_LOADING" ->
           [s EXCEPT !.loading = a.payload]
      [] a.type = "SET_SEARCH_QUERY" ->
           [s EXCEPT !.searchQuery = a.payload, !.filtersChanged = TRUE]
      [] a.type = "SET_PAGE_BY_STATUS" ->
           [s EXCEPT !.pageByStatus[a.payload.status] = a.payload.page]
      [] a.type = "SET_HAS_MORE_BY_STATUS" ->
           [s EXCEPT !.hasMoreByStatus[a.payload.status] = a.payload.hasMore]
      [] a.type = "SET_TOTAL_COUNT_BY_STATUS" ->
           [s EXCEPT !.totalCountByStatus = a.payload]
      [] a.type = "RESET_PAGINATION" ->
           [s EXCEPT !.pageByStatus = [k \in StatusKey |-> 0],
                     !.hasMoreByStatus = [k \in StatusKey |-> TRUE],
                     !.tasksByStatus = [k \in StatusKey |-> <<>>]]
      [] a.type = "SET_FILTERS_CHANGED" ->
           [s EXCEPT !.filtersChanged = a.payload]
      [] a.type = "SET_SELECTED_COUNTRIES" ->
           [s EXCEPT !.selectedCountries = a.payload, !.filtersChanged = TRUE]
      [] a.type = "SET_COUNTRY_OPTIONS" ->
           [s EXCEPT !.countryOptions = a.payload]
      [] a.type = "SET_HOURLY_BUDGET_TYPE" ->
           [s EXCEPT !.hourlyBudgetType = a.payload, !.filtersChanged = TRUE]
      [] a.type = "SET_PRICE_RANGE" ->
           [s EXCEPT !.priceRange = a.payload, !.filtersChanged = TRUE]
      [] OTHER -> s

\* the state after a list of dispatched actions, applied in dispatch order
RECURSIVE dispatchAll(_, _)
dispatchAll(s, as) ==
    IF as = <<>> THEN s ELSE dispatchAll(reducer(s, Head(as)), Tail(as))

Act(t, p) == [type |-> t, payload |-> p]

\* ------------------------------------------------------------ backend
\* The hosted backend answers the remote calls.  Its rows carry the columns the
\* store filters on; created_at grows with the row id.
Categories == <<"Writing", "Design">>

NewRow(i, label) ==
    [id |-> i, status |-> label, category |-> Categories[((i - 1) % 2) + 1]]

\* the ids n, n-1, ..., 1: creation-descending order
DescIds(n) == [i \in 1..n |-> n + 1 - i]

MatchesFilters(row, label, p) ==
    /\ row.status = label
    /\ (p.category_filter = Null \/ p.category_filter = Some(row.category))

\* the rows of `rows` that a query with parameters p selects, newest first
ResultSet(rows, label, p) ==
    LET ids  == DescIds(Len(rows))
        keep == SelectSeq(ids, LAMBDA i : MatchesFilters(rows[i], label, p))
    IN  [j \in 1..Len(keep) |-> rows[keep[j]]]

Min(a, b) == IF a < b THEN a ELSE b

Max(a, b) == IF a > b THEN a ELSE b

\* rpc get_task_by_status: one page of the result set
get_task_by_status(rows, p) ==
    LET all == ResultSet(rows, p.task_status, p)
    IN  SubSeq(all, p.offset_count + 1, Min(Len(all), p.offset_count + p.limit_count))

\* rpc get_task_count_by_status: the size of the result set
get_task_count_by_status(rows, p) == Len(ResultSet(rows, p.task_status, p))

\* rpc update_task_status
update_task_status(rows, p) ==
    [i \in 1..Len(rows) |->
        IF rows[i].id = p.task_id THEN [rows[i] EXCEPT !.status = p.new_status]
        ELSE rows[i]]

\* ------------------------------------------------- the store's remote calls
\* String.prototype.toUpperCase on the strings the filter bar can hold
toUpperCase(str) ==
    CASE str = "fixed"  -> "FIXED"
      [] str = "hourly" -> "HOURLY"
      [] str = "null"   -> "NULL"
      [] OTHER          -> str

\* hourly_budget_type as fetchTasksByStatus sends it: a falsy value (null, "")
\* is sent as null, "null" as it is, anything else in upper case
hourlyBudgetTypeParam(h) ==
    IF h = Null \/ h = Some("") THEN Null
    ELSE IF h = Some("null") THEN Some("null") ELSE Some(toUpperCase(h[1]))

\* hourly_budget_type as getTaskCountByStatus sends it: only null is sent as null
hourlyBudgetTypeCountParam(h) ==
    IF h = Some("null") THEN Some("null")
    ELSE IF h = Null THEN Null ELSE Some(toUpperCase(h[1]))

EffectiveLimit(cur) == IF cur.limit = Null THEN PAGE_SIZE ELSE cur.limit[1]

\* shouldApplyFilters / isFilteredStatus
applyFiltersAlways(cur, label) == TRUE

\* a null or empty statusFilter is falsy
shouldApplyFilters(cur, label) ==
    cur.statusFilter \in {Null, Some("")} \/ cur.statusFilter = Some(label)

\* the `filtered` object loadMoreTasks builds for one status
filtered(cur, label) ==
    LET on == shouldApplyFilters(cur, label)
    IN  [ categoryFilter    |-> IF on THEN cur.categoryFilter ELSE Null,
          subcategoryFilter |-> IF on THEN cur.subcategoryFilter ELSE Null,
          dateRange         |-> IF on THEN cur.dateRange ELSE NoRange,
          searchQuery       |-> IF on THEN cur.searchQuery ELSE Null,
          selectedCountries |-> IF on THEN cur.selectedCountries ELSE <<>>,
          hourlyBudgetType  |-> IF on THEN cur.hourlyBudgetType ELSE Null,
          priceFrom         |-> IF on THEN cur.priceRange.from ELSE Null,
          priceTo           |-> IF on THEN cur.priceRange.to ELSE Null ]

\* the parameters of the get_task_by_status call
listParams(label, f, limit, offset) ==
    [ task_status        |-> label,
      category_filter    |-> f.categoryFilter,
      subcategory_filter |-> f.subcategoryFilter,
      date_from          |-> f.dateRange.from,
      date_to            |-> f.dateRange.to,
      limit_count        |-> limit,
      offset_count       |-> offset,
      search_query       |-> f.searchQuery,
      country_filter     |-> IF Len(f.selectedCountries) > 0
                             THEN Some(f.selectedCountries) ELSE Null,
      hourly_budget_type |-> hourlyBudgetTypeParam(f.hourlyBudgetType),
      price_from         |-> f.priceFrom,
      price_to           |-> f.priceTo ]

\* how a remote call ends: with rows, with an error result, or by throwing
Outcomes == {"ok", "error", "throw"}

\* a fetch that hands on whatever rows the call carried, failed or not
fetchTasksByStatusAnyway(rows, label, f, limit, offset, outcome) ==
    get_task_by_status(rows, listParams(label, f, limit, offset))

\* fetchTasksByStatus: the page, or the empty list on an error or an exception
fetchTasksByStatus(rows, label, f, limit, offset, outcome) ==
    IF outcome = "ok"
    THEN get_task_by_status(rows, listParams(label, f, limit, offset))
    ELSE <<>>

\* the parameters of the get_task_count_by_status call
countParams(label, f) ==
    [ task_status        |-> label,
      category_filter    |-> f.categoryFilter,
      subcategory_filter |-> f.subcategoryFilter,
      date_from          |-> f.dateRange.from,
      date_to            |-> f.dateRange.to,
      search_query       |-> f.searchQuery,
      country_filter     |-> IF Len(f.selectedCountries) > 0
                             THEN Some(f.selectedCountries) ELSE Null,
      hourly_budget_type |-> hourlyBudgetTypeCountParam(f.hourlyBudgetType),
      price_from         |-> f.priceFrom,
      price_to           |-> f.priceTo ]

\* getTaskCountByStatus: the count, or 0 on an error
getTaskCountByStatus(rows, label, f, outcome) ==
    IF outcome = "ok" THEN get_task_count_by_status(rows, countParams(label, f))
    ELSE 0


\* ------------------------------------------------------------- state
VARIABLES
    state,      \* the reducer's state: every dispatched action applied
    stateRef,   \* the state of the last render (stateRef.current; in the older
                \* hook, the state its callbacks close over)
    depsFresh,  \* a filter object (dateRange, selectedCountries, priceRange)
                \* was replaced since the last render
    loads,      \* the loadMoreTasks invocations whose fetches are in flight
    updates,    \* the update_task_status calls of moveTask in flight
    counts,     \* the fetchStatusWiseCounts invocations in flight
    backend,    \* the rows of the projects table
    timer,      \* the debounce timer of the realtime handler: Null when idle,
                \* else the milliseconds left and the events it has coalesced
    optimistic, \* history: a moveTask has rewritten the lists and no reset
                \* reload has completed since
    calls,      \* how many calls the store's callers have made so far
    variant,    \* which hook runs: "current" or "older"
    cap,        \* how many calls of each kind may be in flight at once, and
                \* how many calls the callers make in all
    discard,    \* the Discard page: its React state, its refs, the closures its
                \* effects registered and its fetches in flight
    modal,      \* the task detail modal: its props, its React state and its
                \* remote calls in flight
    channels,   \* the channels subscribed on the realtime client
    mounted,    \* the components that are mounted
    commentRows \* the rows of the comments table

\* what no action of the store changes
env == <<variant, cap, discard, modal, channels, mounted, commentRows>>

\* the store's own variables, which no action of the pages changes
store == <<state, stateRef, depsFresh, loads, updates, timer, optimistic, variant, cap>>

\* what no action of the Discard page changes
notDiscard == <<store, modal, channels, mounted, commentRows>>

vars ==
    <<state, stateRef, depsFresh, loads, updates, counts, backend, timer,
      optimistic, calls, variant, cap, discard, modal, channels, mounted,
      commentRows>>

RemoveAt(seq, i) == SubSeq(seq, 1, i - 1) \o SubSeq(seq, i + 1, Len(seq))

SeqToSet(seq) == {seq[i] : i \in 1..Len(seq)}

\* ---------------------------------------------------------- loadMoreTasks
\* the statuses a call covers
statusesOf(specificStatus) ==
    IF specificStatus = Null THEN statusKeyArray ELSE <<specificStatus[1]>>

shouldLoadMore(cur, reset, statuses) ==
    \E i \in 1..Len(statuses) :
        \/ reset
        \/ /\ Len(cur.tasksByStatus[statuses[i]]) < cur.totalCountByStatus[statuses[i]]
           /\ cur.hasMoreByStatus[statuses[i]]

\* the two early returns of loadMoreTasks
loadMoreReturnsEarly(cur, reset, statuses) ==
    \/ cur.loading /\ ~reset
    \/ ~shouldLoadMore(cur, reset, statuses) /\ ~reset

\* what an invocation reads of its snapshot after the early returns: the filters
\* and the limit and, when it does not reset, the pages and the lists held; the
\* fields it never reads are left at their initial values
loadSnapshot(cur, reset) ==
    [initialState EXCEPT
        !.statusFilter      = cur.statusFilter,
        !.categoryFilter    = cur.categoryFilter,
        !.subcategoryFilter = cur.subcategoryFilter,
        !.dateRange         = cur.dateRange,
        !.limit             = cur.limit,
        !.searchQuery       = cur.searchQuery,
        !.selectedCountries = cur.selectedCountries,
        !.hourlyBudgetType  = cur.hourlyBudgetType,
        !.priceRange        = cur.priceRange,
        !.pageByStatus      = IF reset THEN @ ELSE cur.pageByStatus,
        !.tasksByStatus     = IF reset THEN @ ELSE cur.tasksByStatus]

\* an invocation past its early returns: the snapshot it took of stateRef.current,
\* the fetches still pending and the pages the settled ones returned; `by` notes
\* who called: a caller of the hook ("call"), the filtersChanged effect
\* ("effect") or the realtime handler ("realtime")
NewLoad(cur, reset, statuses, by) ==
    [ by       |-> by,
      reset    |-> reset,
      statuses |-> statuses,
      cur      |-> loadSnapshot(cur, reset),
      pending  |-> SeqToSet(statuses),
      results  |-> [k \in StatusKey |-> <<>>] ]

\* the page one fetch of an invocation returns
pageOf(ld, key) == IF ld.reset THEN 0 ELSE ld.cur.pageByStatus[key]

fetchedTasks(ld, key, rows, outcome) ==
    LET label == statusKeyToStatusLabel(key)
        limit == EffectiveLimit(ld.cur)
    IN  fetchTasksByStatus(rows, label, filtered(ld.cur, label), limit,
                           pageOf(ld, key) * limit, outcome)

\* the parameters of the list call loadMoreTasks issues for one status
sentListParams(ld, key) ==
    LET label == statusKeyToStatusLabel(key)
        limit == EffectiveLimit(ld.cur)
    IN  listParams(label, filtered(ld.cur, label), limit, pageOf(ld, key) * limit)

\* a rule that reopens a status on any non-empty page
hasMoreIfAny(tasks, limit) == Len(tasks) > 0

\* hasMore as loadMoreTasks stores it: the page came back full
hasMoreAfter(tasks, limit) == Len(tasks) = limit

\* the dispatches a non-reset invocation makes when the fetch of `key` settles
perFetchDispatches(ld, key, tasks) ==
    IF ld.reset THEN <<>>
    ELSE << Act("UPDATE_TASKS_FOR_STATUS",
                [status |-> key, tasks |-> ld.cur.tasksByStatus[key] \o tasks]),
            Act("SET_PAGE_BY_STATUS", [status |-> key, page |-> pageOf(ld, key) + 1]),
            Act("SET_HAS_MORE_BY_STATUS",
                [status |-> key,
                 hasMore |-> hasMoreAfter(tasks, EffectiveLimit(ld.cur))]) >>

\* the dispatches of a reset invocation for the i-th status onwards
RECURSIVE resetDispatchesFrom(_, _, _)
resetDispatchesFrom(ld, results, i) ==
    IF i > Len(ld.statuses) THEN <<>>
    ELSE LET key == ld.statuses[i]
         IN  << Act("SET_PAGE_BY_STATUS", [status |-> key, page |-> 1]),
                Act("SET_HAS_MORE_BY_STATUS",
                    [status |-> key,
                     hasMore |-> hasMoreAfter(results[key], EffectiveLimit(ld.cur))]) >>
             \o resetDispatchesFrom(ld, results, i + 1)

\* a finally block that forgets setLoading(false)
finallyKeepsLoading(ld) ==
    IF ld.reset THEN << Act("SET_FILTERS_CHANGED", FALSE) >> ELSE <<>>

\* the finally block: setLoading(false) and, on a reset, setFiltersChanged(false)
finallyDispatches(ld) ==
    << Act("SET_LOADING", FALSE) >>
    \o (IF ld.reset THEN << Act("SET_FILTERS_CHANGED", FALSE) >> ELSE <<>>)

\* a completion that drops the results of a reset reload whose category filter
\* has been superseded in the store since it started
finalDispatchesIfCurrent(ld, results) ==
    (IF ld.reset /\ ld.cur.categoryFilter = state.categoryFilter
     THEN resetDispatchesFrom(ld, results, 1)
          \o << Act("SET_TASKS_BY_STATUS",
                    [k \in StatusKey |->
                        IF k \in SeqToSet(ld.statuses) THEN results[k] ELSE <<>>]) >>
     ELSE <<>>)
    \o finallyDispatches(ld)

\* the dispatches once every fetch of the invocation has settled
finalDispatches(ld, results) ==
    (IF ld.reset
     THEN resetDispatchesFrom(ld, results, 1)
          \o << Act("SET_TASKS_BY_STATUS",
                    [k \in StatusKey |->
                        IF k \in SeqToSet(ld.statuses) THEN results[k] ELSE <<>>]) >>
     ELSE <<>>)
    \o finallyDispatches(ld)

\* loadMoreTasks(reset, specificStatus) called with stateRef.current = cur:
\* nothing on an early return, else setLoading(true) and one fetch per status
startLoad(cur, reset, specificStatus, by) ==
    IF loadMoreReturnsEarly(cur, reset, statusesOf(specificStatus))
    THEN [dispatches |-> <<>>, loads |-> <<>>]
    ELSE [dispatches |-> << Act("SET_LOADING", TRUE) >>,
          loads      |-> << NewLoad(cur, reset, statusesOf(specificStatus), by) >>]

\* a caller (the board on mount, a scroll handler) calls loadMoreTasks
loadMoreTasks(reset, specificStatus) ==
    LET st == startLoad(stateRef, reset, specificStatus, "call")
    IN  /\ variant = "current"
        /\ calls < cap.calls
        /\ Len(loads) + Len(st.loads) <= cap.loads
        /\ state' = dispatchAll(state, st.dispatches)
        /\ loads' = loads \o st.loads
        /\ calls' = calls + 1
        /\ UNCHANGED <<stateRef, depsFresh, updates, counts, backend, timer,
                       optimistic, env>>

\* the fetch of `key` of the i-th invocation settles
FetchSettle(i, key, outcome) ==
    /\ variant = "current"
    /\ i \in 1..Len(loads)
    /\ key \in loads[i].pending
    /\ \E tasks \in {fetchedTasks(loads[i], key, backend, outcome)} :
       LET ld      == loads[i]
           results == [ld.results EXCEPT ![key] = tasks]
           pending == ld.pending \ {key}
           done    == pending = {}
       IN  /\ state' = dispatchAll(state,
                 perFetchDispatches(ld, key, tasks)
                 \o (IF done THEN finalDispatches(ld, results) ELSE <<>>))
           /\ loads' = IF done THEN RemoveAt(loads, i)
                       ELSE [loads EXCEPT ![i].pending = pending,
                                          ![i].results = IF ld.reset THEN results
                                                         ELSE ld.results]
           /\ optimistic' = IF done /\ ld.reset THEN FALSE ELSE optimistic
    /\ UNCHANGED <<stateRef, depsFresh, updates, counts, backend, timer, calls, env>>

\* ------------------------------------------------- fetchStatusWiseCounts
\* an invocation in flight: the filters of the snapshot it took of
\* stateRef.current (the counts of the snapshot are all overwritten)
NewCount(cur) == [cur |-> loadSnapshot(cur, TRUE)]

\* the counts it stores once its three count calls have settled
updatedCounts(cur, rows, outcomes) ==
    [key \in StatusKey |->
        getTaskCountByStatus(rows, statusKeyToStatusLabel(key),
                             filtered(cur, statusKeyToStatusLabel(key)),
                             outcomes[key])]

\* the parameters of the count call fetchStatusWiseCounts issues for one status
sentCountParams(ct, key) ==
    countParams(statusKeyToStatusLabel(key),
                filtered(ct.cur, statusKeyToStatusLabel(key)))

CountSettle(i, outcomes) ==
    /\ i \in 1..Len(counts)
    /\ state' = reducer(state, Act("SET_TOTAL_COUNT_BY_STATUS",
                                   updatedCounts(counts[i].cur, backend, outcomes)))
    /\ counts' = RemoveAt(counts, i)
    /\ UNCHANGED <<stateRef, depsFresh, loads, updates, backend, timer,
                   optimistic, calls, env>>

\* ---------------------------------------------------------------- moveTask
\* an insertion that ignores the index and appends
spliceAtEnd(list, index, item) == Append(list, item)

\* Array.prototype.splice(index, 0, item): a start beyond the length inserts at
\* the end, a negative start counts from the end
splice(list, index, item) ==
    LET at == IF index < 0 THEN Max(Len(list) + index, 0) ELSE Min(index, Len(list))
    IN  SubSeq(list, 1, at) \o <<item>> \o SubSeq(list, at + 1, Len(list))

\* Array.prototype.find on the task id: the first match as <<task>>, or Null
findTask(list, taskId) ==
    LET hits == SelectSeq(list, LAMBDA t : t.id = taskId)
    IN  IF hits = <<>> THEN Null ELSE Some(Head(hits))

withoutTask(list, taskId) == SelectSeq(list, LAMBDA t : t.id # taskId)

\* the lists moveTask stores
movedLists(cur, taskId, sourceCol, destCol, destIndex) ==
    LET task        == findTask(cur.tasksByStatus[sourceCol], taskId)[1]
        updatedTask == [task EXCEPT !.status = statusKeyToStatusLabel(destCol)]
        newSource   == withoutTask(cur.tasksByStatus[sourceCol], taskId)
        newDest     == splice(withoutTask(cur.tasksByStatus[destCol], taskId),
                              destIndex, updatedTask)
    IN  [cur.tasksByStatus EXCEPT ![sourceCol] = newSource, ![destCol] = newDest]

\* the update_task_status call moveTask issues
updateCall(taskId, destCol) ==
    [task_id |-> taskId, new_status |-> statusKeyToStatusLabel(destCol)]

moveTask(taskId, sourceCol, destCol, destIndex) ==
    IF findTask(stateRef.tasksByStatus[sourceCol], taskId) = Null
    THEN UNCHANGED vars
    ELSE /\ calls < cap.calls
         /\ Len(updates) < cap.updates
         /\ state' = reducer(state,
                Act("SET_TASKS_BY_STATUS",
                    movedLists(stateRef, taskId, sourceCol, destCol, destIndex)))
         /\ updates' = Append(updates, updateCall(taskId, destCol))
         /\ optimistic' = TRUE
         /\ calls' = calls + 1
         /\ UNCHANGED <<stateRef, depsFresh, loads, counts, backend, timer, env>>

\* a settle that returns on an error without refreshing the counts
UpdateSettleOrGiveUp(i, outcome) ==
    /\ i \in 1..Len(updates)
    /\ Len(counts) < cap.counts
    /\ backend' = IF outcome = "ok" THEN update_task_status(backend, updates[i])
                  ELSE backend
    /\ updates' = RemoveAt(updates, i)
    /\ counts' = IF outcome = "ok" THEN Append(counts, NewCount(stateRef)) ELSE counts
    /\ UNCHANGED <<state, stateRef, depsFresh, loads, timer, optimistic, calls, env>>

\* the update_task_status call settles; the count refresh follows either way
UpdateSettle(i, outcome) ==
    /\ i \in 1..Len(updates)
    /\ Len(counts) < cap.counts
    /\ backend' = IF outcome = "ok" THEN update_task_status(backend, updates[i])
                  ELSE backend
    /\ updates' = RemoveAt(updates, i)
    /\ counts' = Append(counts, NewCount(stateRef))
    /\ UNCHANGED <<state, stateRef, depsFresh, loads, timer, optimistic, calls, env>>

\* --------------------------------------------------------- dispatch
\* a dispatch that also marks the filters as changed
dispatchMarksDirty(s, a) == [reducer(s, a) EXCEPT !.filtersChanged = TRUE]

\* useReducer's dispatch: the next state is the reducer's result
dispatch(s, a) == reducer(s, a)

\* one action dispatched to the store
Dispatch(a) ==
    /\ calls < cap.calls
    /\ calls' = calls + 1
    /\ state' = dispatch(state, a)
    /\ UNCHANGED <<stateRef, depsFresh, loads, updates, counts, backend, timer,
                   optimistic, env>>

\* --------------------------------------------------------- filter setters
\* the values the filter bar passes to the setters: a category or none, a page
\* size or none, and a date range (a new object on every call)
FilterActions ==
    {Act("SET_CATEGORY_FILTER", v) : v \in {Null, Some(Categories[1])}}
    \cup {Act("SET_LIMIT", v) : v \in {Null, Some(SmallLimit)}}
    \cup {Act("SET_DATE_RANGE", v) : v \in {NoRange}}

\* the setters whose payload is a new object on every call
ObjectFilterActions == {"SET_DATE_RANGE", "SET_SELECTED_COUNTRIES", "SET_PRICE_RANGE"}

SetFilter(a) ==
    /\ variant = "current"
    /\ calls < cap.calls
    /\ state' = reducer(state, a)
    /\ depsFresh' = (depsFresh \/ a.type \in ObjectFilterActions)
    /\ calls' = calls + 1
    /\ UNCHANGED <<stateRef, loads, updates, counts, backend, timer, optimistic, env>>

\* ------------------------------------------------------ render and effect
\* a dependency of the filtersChanged effect differs from the last render's
depsChanged(prev, next, fresh) ==
    \/ fresh
    \/ next.statusFilter # prev.statusFilter
    \/ next.categoryFilter # prev.categoryFilter
    \/ next.subcategoryFilter # prev.subcategoryFilter
    \/ next.searchQuery # prev.searchQuery
    \/ next.limit # prev.limit
    \/ next.hourlyBudgetType # prev.hourlyBudgetType

\* the effect runs its body on this render
effectRuns(prev, next, fresh) == depsChanged(prev, next, fresh) /\ next.filtersChanged

\* React renders the dispatched state: stateRef.current takes it, and the effect
\* runs resetPagination, loadMoreTasks(true) and fetchStatusWiseCounts
Render ==
    /\ variant = "current"
    /\ state # stateRef \/ depsFresh
    /\ stateRef' = state
    /\ depsFresh' = FALSE
    /\ IF effectRuns(stateRef, state, depsFresh)
       THEN LET st == startLoad(state, TRUE, Null, "effect")
            IN  /\ Len(loads) + Len(st.loads) <= cap.loads
                /\ Len(counts) < cap.counts
                /\ state' = dispatchAll(state,
                       << Act("RESET_PAGINATION", Null) >> \o st.dispatches)
                /\ loads' = loads \o st.loads
                /\ counts' = Append(counts, NewCount(state))
       ELSE UNCHANGED <<state, loads, counts>>
    /\ UNCHANGED <<updates, backend, timer, optimistic, calls, env>>

\* ------------------------------------------------------ realtime handler
TimeStep(wait) == wait \div TicksPerWindow

\* a change event on the projects table calls the debounced handler
RealtimeEvent(wait) ==
    /\ calls < cap.calls
    /\ timer' = Some([left |-> wait, events |-> IF timer = Null THEN 1 ELSE 2])
    /\ calls' = calls + 1
    /\ UNCHANGED <<state, stateRef, depsFresh, loads, updates, counts, backend,
                   optimistic, env>>

Tick(wait) ==
    /\ timer # Null
    /\ timer[1].left > 0
    /\ timer' = Some([timer[1] EXCEPT !.left = Max(0, timer[1].left - TimeStep(wait))])
    /\ UNCHANGED <<state, stateRef, depsFresh, loads, updates, counts, backend,
                   optimistic, calls, env>>

\* a debounced function that reloads whatever the loading flag says
handleRealtimeUpdateUnguarded ==
    /\ variant = "current"
    /\ timer # Null
    /\ timer[1].left = 0
    /\ timer' = Null
    /\ LET st == startLoad(stateRef, TRUE, Null, "realtime")
       IN  /\ Len(loads) + Len(st.loads) <= cap.loads
           /\ Len(counts) < cap.counts
           /\ state' = dispatchAll(state, st.dispatches)
           /\ loads' = loads \o st.loads
           /\ counts' = Append(counts, NewCount(stateRef))
    /\ UNCHANGED <<stateRef, depsFresh, updates, backend, optimistic, calls, env>>

\* the wait has elapsed since the last event: the debounced function runs
handleRealtimeUpdate ==
    /\ variant = "current"
    /\ timer # Null
    /\ timer[1].left = 0
    /\ timer' = Null
    /\ IF ~stateRef.loading
       THEN LET st == startLoad(stateRef, TRUE, Null, "realtime")
            IN  /\ Len(loads) + Len(st.loads) <= cap.loads
                /\ Len(counts) < cap.counts
                /\ state' = dispatchAll(state, st.dispatches)
                /\ loads' = loads \o st.loads
                /\ counts' = Append(counts, NewCount(stateRef))
       ELSE UNCHANGED <<state, loads, counts>>
    /\ UNCHANGED <<stateRef, depsFresh, updates, backend, optimistic, calls, env>>

\* ---------------------------------------------------------- the older hook
\* The older hook has no stateRef and no filtersChanged flag: loadMoreTasks and
\* moveTask close over the state of the render that made them, which this model
\* keeps in stateRef.  Its state has fewer fields; the others stay as they start.
pageSize == 10

oldReducer(s, a) ==
    CASE a.type = "SET_TASKS_BY_STATUS" ->
           [s EXCEPT !.tasksByStatus = a.payload]
      [] a.type = "SET_STATUS_FILTER" ->
           [s EXCEPT !.statusFilter = a.payload]
      [] a.type = "SET_CATEGORY_FILTER" ->
           [s EXCEPT !.categoryFilter = a.payload]
      [] a.type = "SET_SUBCATEGORY_FILTER" ->
           [s EXCEPT !.subcategoryFilter = a.payload]
      [] a.type = "SET_DATE_RANGE" ->
           [s EXCEPT !.dateRange = a.payload]
      [] a.type = "SET_LIMIT" ->
           [s EXCEPT !.limit = a.payload]
      [] a.type = "SET_LOADING" ->
           [s EXCEPT !.loading = a.payload]
      [] a.type = "SET_SEARCH_QUERY" ->
           [s EXCEPT !.searchQuery = a.payload]
      [] a.type = "SET_PAGE_BY_STATUS" ->
           [s EXCEPT !.pageByStatus[a.payload.status] = a.payload.page]
      [] a.type = "SET_HAS_MORE_BY_STATUS" ->
           [s EXCEPT !.hasMoreByStatus[a.payload.status] = a.payload.hasMore]
      [] a.type = "SET_TOTAL_COUNT_BY_STATUS" ->
           [s EXCEPT !.totalCountByStatus = a.payload]
      [] a.type = "RESET_PAGINATION" ->
           [s EXCEPT !.pageByStatus = [k \in StatusKey |-> 0],
                     !.hasMoreByStatus = [k \in StatusKey |-> TRUE],
                     !.tasksByStatus = [k \in StatusKey |-> <<>>]]
      [] OTHER -> s

RECURSIVE oldDispatchAll(_, _)
oldDispatchAll(s, as) ==
    IF as = <<>> THEN s ELSE oldDispatchAll(oldReducer(s, Head(as)), Tail(as))

\* limitCount: filters.limit ?? state.limit ?? pageSize
oldLimitCount(cur) == IF cur.limit = Null THEN pageSize ELSE cur.limit[1]

\* the `filtered` object of the older loadMoreTasks
oldFiltered(cur, label) ==
    LET on == cur.statusFilter = Null \/ cur.statusFilter = Some(label)
    IN  [ categoryFilter    |-> IF on THEN cur.categoryFilter ELSE Null,
          subcategoryFilter |-> IF on THEN cur.subcategoryFilter ELSE Null,
          dateRange         |-> IF on THEN cur.dateRange ELSE NoRange,
          searchQuery       |-> IF on THEN cur.searchQuery ELSE Null ]

\* the older fetchTasksByStatus: the page, or the empty list on an error result
oldFetchTasksByStatus(rows, label, f, limit, offset, outcome) ==
    IF outcome = "ok"
    THEN get_task_by_status(rows,
             [ task_status        |-> label,
               category_filter    |-> f.categoryFilter,
               subcategory_filter |-> f.subcategoryFilter,
               date_from          |-> f.dateRange.from,
               date_to            |-> f.dateRange.to,
               limit_count        |-> limit,
               offset_count       |-> offset,
               search_query       |-> f.searchQuery ])
    ELSE <<>>

\* an invocation of the older loadMoreTasks: `results` is its newTasksByStatus
oldNewLoad(cur, reset, statuses) ==
    [ by       |-> "call",
      reset    |-> reset,
      statuses |-> statuses,
      cur      |-> loadSnapshot(cur, reset),
      pending  |-> SeqToSet(statuses),
      results  |-> IF reset THEN [k \in StatusKey |-> <<>>] ELSE cur.tasksByStatus ]

\* the older loop awaits one fetch at a time: the status whose fetch is in flight
oldFetching(ld) ==
    LET i == CHOOSE i \in 1..Len(ld.statuses) :
                 /\ ld.statuses[i] \in ld.pending
                 /\ \A j \in 1..i - 1 : ld.statuses[j] \notin ld.pending
    IN  ld.statuses[i]

\* hasMore as the older loadMoreTasks stores it: the page was not empty
oldHasMoreAfter(fetched) == Len(fetched) > 0

oldLoadMoreTasks(reset, specificStatus) ==
    /\ variant = "older"
    /\ calls < cap.calls
    /\ Len(loads) < cap.loads
    /\ state' = oldReducer(state, Act("SET_LOADING", TRUE))
    /\ loads' = Append(loads, oldNewLoad(stateRef, reset, statusesOf(specificStatus)))
    /\ calls' = calls + 1
    /\ UNCHANGED <<stateRef, depsFresh, updates, counts, backend, timer,
                   optimistic, env>>

\* the fetch the i-th invocation awaits settles; an exception ends the
\* invocation where it stands (it has no try block)
oldFetchSettle(i, outcome) ==
    /\ variant = "older"
    /\ i \in 1..Len(loads)
    /\ LET ld      == loads[i]
           key     == oldFetching(ld)
           label   == statusKeyToStatusLabel(key)
           page    == pageOf(ld, key)
           limit   == oldLimitCount(ld.cur)
           fetched == oldFetchTasksByStatus(backend, label, oldFiltered(ld.cur, label),
                                            limit, page * limit, outcome)
           results == [ld.results EXCEPT
                          ![key] = IF ld.reset THEN fetched
                                   ELSE ld.cur.tasksByStatus[key] \o fetched]
           pending == ld.pending \ {key}
           done    == pending = {}
       IN  IF outcome = "throw"
           THEN /\ state' = state
                /\ loads' = RemoveAt(loads, i)
                /\ optimistic' = optimistic
           ELSE /\ state' = oldDispatchAll(state,
                      << Act("SET_PAGE_BY_STATUS", [status |-> key, page |-> page + 1]),
                         Act("SET_HAS_MORE_BY_STATUS",
                             [status |-> key, hasMore |-> oldHasMoreAfter(fetched)]) >>
                      \o (IF done THEN << Act("SET_TASKS_BY_STATUS", results),
                                          Act("SET_LOADING", FALSE) >>
                          ELSE <<>>))
                /\ loads' = IF done THEN RemoveAt(loads, i)
                            ELSE [loads EXCEPT ![i].pending = pending,
                                               ![i].results = results]
                /\ optimistic' = IF done /\ ld.reset THEN FALSE ELSE optimistic
    /\ UNCHANGED <<stateRef, depsFresh, updates, counts, backend, timer, calls, env>>

\* React renders the dispatched state: the callbacks now close over it
oldRender ==
    /\ variant = "older"
    /\ state # stateRef
    /\ stateRef' = state
    /\ UNCHANGED <<state, depsFresh, loads, updates, counts, backend, timer,
                   optimistic, calls, env>>

\* a filter setter of the older hook
oldSetFilter(a) ==
    /\ variant = "older"
    /\ calls < cap.calls
    /\ state' = oldReducer(state, a)
    /\ calls' = calls + 1
    /\ UNCHANGED <<stateRef, depsFresh, loads, updates, counts, backend, timer,
                   optimistic, env>>

\* the wait of the older hook's debounce
OldDebounceWait == 300

\* The subscription effect of the older hook has an empty dependency list: the
\* debounced function it calls is the one the first render made, and that one
\* calls the loadMoreTasks and fetchStatusWiseCounts of the first render, which
\* close over the state useReducer started with.
firstRenderState == initialState

\* one count query of the older fetchStatusWiseCounts: the number of rows of
\* the status, filtered when the status filter allows; 0 when no count returns
oldCountQuery(rows, label, cur, outcome) ==
    LET on == cur.statusFilter = Null \/ cur.statusFilter = Some(label)
    IN  IF outcome = "ok"
        THEN Len(ResultSet(rows, label,
                 [category_filter |-> IF on THEN cur.categoryFilter ELSE Null]))
        ELSE 0

\* the older fetchStatusWiseCounts stores its counts
oldCountSettle(i, outcomes) ==
    /\ variant = "older"
    /\ i \in 1..Len(counts)
    /\ state' = oldReducer(state,
           Act("SET_TOTAL_COUNT_BY_STATUS",
               [key \in StatusKey |->
                   oldCountQuery(backend, statusKeyToStatusLabel(key),
                                 counts[i].cur, outcomes[key])]))
    /\ counts' = RemoveAt(counts, i)
    /\ UNCHANGED <<stateRef, depsFresh, loads, updates, backend, timer,
                   optimistic, calls, env>>

\* the wait has elapsed since the last event: the first render's debounced
\* function runs loadMoreTasks(true) and fetchStatusWiseCounts()
debouncedRealtimeUpdate ==
    /\ variant = "older"
    /\ timer # Null
    /\ timer[1].left = 0
    /\ Len(loads) < cap.loads
    /\ Len(counts) < cap.counts
    /\ timer' = Null
    /\ state' = oldReducer(state, Act("SET_LOADING", TRUE))
    /\ loads' = Append(loads,
           [oldNewLoad(firstRenderState, TRUE, statusKeyArray) EXCEPT !.by = "realtime"])
    /\ counts' = Append(counts, NewCount(firstRenderState))
    /\ UNCHANGED <<stateRef, depsFresh, updates, backend, optimistic, calls, env>>

\* ------------------------------------------------------------ taskService
\* JavaScript truthiness of a nullable string column
truthy(v) == v # Null /\ v # Some("")

\* the property names every object literal inherits from Object.prototype
\* (those among the category names drawn below)
ObjectPrototypeKeys == {"constructor"}

\* map[key] of the object literal `map`, whose own properties are the domain of
\* the function m: an own property, an inherited one (a function or object,
\* which is truthy and has no `includes`), or undefined
mapGet(m, key) ==
    IF key \in DOMAIN m THEN [kind |-> "own", value |-> m[key]]
    ELSE IF key \in ObjectPrototypeKeys THEN [kind |-> "inherited", value |-> <<>>]
    ELSE [kind |-> "undefined", value |-> <<>>]

\* Set.add: insertion order, no duplicates
setAdd(seq, v) ==
    IF \E j \in 1..Len(seq) : seq[j] = v THEN seq ELSE Append(seq, v)

\* the callback of data.forEach run on one row; `thrown` once a row raised a
\* TypeError, which ends the loop
forEachRow(acc, row) ==
    IF acc.thrown \/ ~truthy(row.category) THEN acc
    ELSE LET c     == row.category[1]
             cats  == setAdd(acc.categories, c)
             m1    == IF mapGet(acc.map, c).kind = "undefined"
                      THEN (c :> <<>>) @@ acc.map ELSE acc.map
             entry == mapGet(m1, c)
         IN  IF ~truthy(row.subcategory)
             THEN [acc EXCEPT !.categories = cats, !.map = m1]
             ELSE IF entry.kind # "own"
             THEN [acc EXCEPT !.categories = cats, !.map = m1, !.thrown = TRUE]
             ELSE IF \E j \in 1..Len(entry.value) : entry.value[j] = row.subcategory[1]
             THEN [acc EXCEPT !.categories = cats, !.map = m1]
             ELSE [acc EXCEPT !.categories = cats,
                              !.map = (c :> Append(entry.value, row.subcategory[1])) @@ m1]

RECURSIVE forEach(_, _)
forEach(acc, rows) ==
    IF rows = <<>> THEN acc ELSE forEach(forEachRow(acc, Head(rows)), Tail(rows))

\* fetchCategoryData after its select settled with `data` (null when the
\* select failed): what it returns, or that it threw
fetchCategoryData(data) ==
    LET acc == forEach([categories |-> <<>>, map |-> <<>>, thrown |-> FALSE],
                       IF data = Null THEN <<>> ELSE data[1])
    IN  [thrown          |-> acc.thrown,
         categoryOptions |-> acc.categories,
         subcategoryMap  |-> acc.map]

\* ------------------------------------------------------------ Discard page
\* The Discard page lists the tasks of status "Discarded".  It takes the filter
\* values and their setters from its own useTasks store and pages through the
\* list itself.  The board lists that store loads are never read by the page
\* and are left out here.
DISCARD_PAGE_SIZE == 10

\* the filter values one render of the page hands to the callbacks it creates
renderedFilters(h) ==
    [ categoryFilter    |-> h.categoryFilter,
      subcategoryFilter |-> h.subcategoryFilter,
      dateRange         |-> h.dateRange,
      limit             |-> h.limit,
      searchQuery       |-> h.searchQuery,
      selectedCountries |-> h.selectedCountries,
      hourlyBudgetType  |-> h.hourlyBudgetType,
      priceRange        |-> h.priceRange ]

\* the filter object fetchDiscardedTasks passes to fetchTasksByStatus, and the
\* arguments fetchDiscardCount passes to getTaskCountByStatus
discardFilters(cur) ==
    [ categoryFilter    |-> cur.categoryFilter,
      subcategoryFilter |-> cur.subcategoryFilter,
      dateRange         |-> cur.dateRange,
      searchQuery       |-> cur.searchQuery,
      selectedCountries |-> cur.selectedCountries,
      hourlyBudgetType  |-> cur.hourlyBudgetType,
      priceFrom         |-> cur.priceRange.from,
      priceTo           |-> cur.priceRange.to ]

\* what one render of the page shows to the effects: the filter values and the
\* two state values the scroll effect depends on
renderOf(d) ==
    [ cur            |-> renderedFilters(d.hook),
      hasMoreDiscard |-> d.hasMoreDiscard,
      loadingDiscard |-> d.loadingDiscard ]

\* the page as its useState and useRef calls construct it, before any effect;
\* `categoryRows` is history: the row set the select of fetchCategoryData gave
discardInitial ==
    [ hook              |-> initialState,
      fresh             |-> FALSE,
      discardedTasks    |-> <<>>,
      hasMoreDiscard    |-> TRUE,
      loadingDiscard    |-> FALSE,
      discardCount      |-> 0,
      discardPageRef    |-> 0,
      loadingDiscardRef |-> FALSE,
      shown             |-> [cur |-> renderedFilters(initialState),
                             hasMoreDiscard |-> TRUE, loadingDiscard |-> FALSE],
      handleScroll      |-> [cur |-> renderedFilters(initialState),
                             hasMoreDiscard |-> TRUE, loadingDiscard |-> FALSE],
      fetches           |-> <<>>,
      countCalls        |-> <<>>,
      categoryOptions   |-> <<>>,
      subcategoryMap    |-> <<>>,
      loadCategoryData  |-> "none",
      categoryRows      |-> Null ]

\* fetchDiscardCount of a render with the filters cur, up to its await
fetchDiscardCount(d, cur) ==
    [d EXCEPT !.countCalls = Append(@, [cur |-> cur])]

\* fetchDiscardedTasks that starts a fetch whether or not one is in flight
fetchDiscardedTasksUnguarded(d, cur, reset, then) ==
    [d EXCEPT
        !.loadingDiscardRef = TRUE,
        !.loadingDiscard    = TRUE,
        !.fetches = Append(@, [reset |-> reset,
                               page  |-> IF reset THEN 0 ELSE d.discardPageRef,
                               cur   |-> cur,
                               then  |-> then,
                               rows  |-> Null])]

\* fetchDiscardedTasks(reset) of a render with the filters cur, up to its
\* await; `then` notes what its caller does once it returns: runFilterUpdate
\* goes on to fetchDiscardCount ("count"), the other callers do nothing more;
\* `rows` is the table as the backend read it for this fetch, once it has
\* answered
fetchDiscardedTasks(d, cur, reset, then) ==
    IF d.loadingDiscardRef THEN d
    ELSE [d EXCEPT
            !.loadingDiscardRef = TRUE,
            !.loadingDiscard    = TRUE,
            !.fetches = Append(@, [reset |-> reset,
                                   page  |-> IF reset THEN 0 ELSE d.discardPageRef,
                                   cur   |-> cur,
                                   then  |-> then,
                                   rows  |-> Null])]

\* runFilterUpdate of the filter effect, up to its first fetch that awaits: a
\* fetchDiscardedTasks that returned early is followed by the count at once
runFilterUpdate(d, cur) ==
    LET cleared == [d EXCEPT !.discardPageRef = 0,
                             !.discardedTasks = <<>>,
                             !.hasMoreDiscard = TRUE]
    IN  IF cleared.loadingDiscardRef THEN fetchDiscardCount(cleared, cur)
        ELSE fetchDiscardedTasks(cleared, cur, TRUE, "count")

\* the page after its first render: the filter effect has run once
discardMounted == runFilterUpdate(discardInitial, renderedFilters(initialState))

\* the select of fetchCategoryData: category and subcategory of every row
selectCategories(rows) ==
    [j \in 1..Len(rows) |->
        [category |-> rows[j].category, subcategory |-> rows[j].subcategory]]

\* the mount effect loadCategoryData up to its await
loadCategoryData(d) == [d EXCEPT !.loadCategoryData = "pending"]

\* the select of fetchCategoryData settles and loadCategoryData runs to its
\* end, or ends at the rejection of fetchCategoryData
LoadCategoryDataSettle(outcome) ==
    /\ discard.loadCategoryData = "pending"
    /\ LET data   == IF outcome = "ok" THEN Some(selectCategories(backend)) ELSE Null
           result == fetchCategoryData(data)
       IN  discard' =
             IF result.thrown
             THEN [discard EXCEPT !.loadCategoryData = "rejected",
                                  !.categoryRows = data]
             ELSE [discard EXCEPT !.loadCategoryData = "done",
                                  !.categoryRows = data,
                                  !.categoryOptions = result.categoryOptions,
                                  !.subcategoryMap = result.subcategoryMap]
    /\ UNCHANGED <<notDiscard, counts, backend, calls>>

\* a filter setter of the page's store
DiscardSetFilter(a) ==
    /\ calls < cap.calls
    /\ calls' = calls + 1
    /\ discard' = [discard EXCEPT !.hook  = reducer(@, a),
                                  !.fresh = @ \/ a.type \in ObjectFilterActions]
    /\ UNCHANGED <<notDiscard, counts, backend>>

\* the primitive dependencies of the filter effect differ between two renders
filterDepsChanged(a, b) ==
    \/ a.categoryFilter # b.categoryFilter
    \/ a.subcategoryFilter # b.subcategoryFilter
    \/ a.limit # b.limit
    \/ a.searchQuery # b.searchQuery
    \/ a.hourlyBudgetType # b.hourlyBudgetType

\* a render of the page and the effects whose dependencies changed: the scroll
\* effect registers a handleScroll closed over this render, the filter effect
\* runs runFilterUpdate
DiscardRender ==
    LET now  == renderOf(discard)
        last == discard.shown
        scrollDeps == \/ now.hasMoreDiscard # last.hasMoreDiscard
                      \/ now.loadingDiscard # last.loadingDiscard
        filterDeps == discard.fresh \/ filterDepsChanged(now.cur, last.cur)
        d1 == [discard EXCEPT !.shown = now,
                              !.fresh = FALSE,
                              !.handleScroll = IF scrollDeps THEN now ELSE @]
    IN  /\ now # last \/ discard.fresh
        /\ discard' = IF filterDeps THEN runFilterUpdate(d1, now.cur) ELSE d1
        /\ UNCHANGED <<notDiscard, counts, backend, calls>>

\* a scroll near the end of the list: the registered handleScroll runs
handleScroll ==
    /\ calls < cap.calls
    /\ calls' = calls + 1
    /\ discard.handleScroll.hasMoreDiscard
    /\ ~discard.handleScroll.loadingDiscard
    /\ discard' = fetchDiscardedTasks(discard, discard.handleScroll.cur, FALSE, "none")
    /\ UNCHANGED <<notDiscard, counts, backend>>

\* an INSERT or UPDATE event on a Discarded row: the callback the subscription
\* effect registered on the first render runs
DiscardRealtimeEvent ==
    LET first == renderedFilters(initialState)
    IN  /\ calls < cap.calls
        /\ calls' = calls + 1
        /\ discard' = fetchDiscardCount(
                          fetchDiscardedTasks(discard, first, FALSE, "none"), first)
        /\ UNCHANGED <<notDiscard, counts, backend>>

\* the backend runs the query of a fetch in flight; its response reaches the
\* page later
DiscardFetchAnswer(i) ==
    /\ i \in 1..Len(discard.fetches)
    /\ discard.fetches[i].rows = Null
    /\ discard' = [discard EXCEPT !.fetches[i].rows = Some(backend)]
    /\ UNCHANGED <<notDiscard, counts, backend, calls>>

\* a settle that appends the page as it came, without leaving out the ids held
DiscardFetchSettleAppending(i, outcome) ==
    /\ i \in 1..Len(discard.fetches)
    /\ LET ft == discard.fetches[i]
           effectiveLimit == IF ft.cur.limit = Null THEN DISCARD_PAGE_SIZE
                             ELSE ft.cur.limit[1]
           offset == ft.page * effectiveLimit
           data == fetchTasksByStatus(IF ft.rows = Null THEN backend ELSE ft.rows[1],
                                      "Discarded", discardFilters(ft.cur),
                                      effectiveLimit, offset, outcome)
           prev == discard.discardedTasks
           existingIds == {prev[j].id : j \in 1..Len(prev)}
           filteredData == SelectSeq(data, LAMBDA t : t.id \notin existingIds)
           settled ==
               [discard EXCEPT
                   !.fetches = RemoveAt(@, i),
                   !.discardedTasks = IF ft.reset THEN data ELSE prev \o data,
                   !.discardPageRef = IF ft.reset THEN 1
                                      ELSE IF Len(data) > 0 THEN @ + 1 ELSE @,
                   !.hasMoreDiscard = (Len(data) = effectiveLimit),
                   !.loadingDiscard = FALSE,
                   !.loadingDiscardRef = FALSE]
       IN  discard' = IF ft.then = "count" THEN fetchDiscardCount(settled, ft.cur)
                      ELSE settled
    /\ UNCHANGED <<notDiscard, counts, backend, calls>>

\* the fetch of fetchDiscardedTasks settles (with the rows the backend read, or
\* read at this moment) and the function runs to its end
DiscardFetchSettle(i, outcome) ==
    /\ i \in 1..Len(discard.fetches)
    /\ LET ft == discard.fetches[i]
           effectiveLimit == IF ft.cur.limit = Null THEN DISCARD_PAGE_SIZE
                             ELSE ft.cur.limit[1]
           offset == ft.page * effectiveLimit
           data == fetchTasksByStatus(IF ft.rows = Null THEN backend ELSE ft.rows[1],
                                      "Discarded", discardFilters(ft.cur),
                                      effectiveLimit, offset, outcome)
           prev == discard.discardedTasks
           existingIds == {prev[j].id : j \in 1..Len(prev)}
           filteredData == SelectSeq(data, LAMBDA t : t.id \notin existingIds)
           settled ==
               [discard EXCEPT
                   !.fetches = RemoveAt(@, i),
                   !.discardedTasks = IF ft.reset THEN data ELSE prev \o filteredData,
                   !.discardPageRef = IF ft.reset THEN 1
                                      ELSE IF Len(data) > 0 THEN @ + 1 ELSE @,
                   !.hasMoreDiscard = (Len(data) = effectiveLimit),
                   !.loadingDiscard = FALSE,
                   !.loadingDiscardRef = FALSE]
       IN  discard' = IF ft.then = "count" THEN fetchDiscardCount(settled, ft.cur)
                      ELSE settled
    /\ UNCHANGED <<notDiscard, counts, backend, calls>>

\* the count of fetchDiscardCount settles
DiscardCountSettle(i, outcome) ==
    /\ i \in 1..Len(discard.countCalls)
    /\ discard' = [discard EXCEPT
           !.countCalls = RemoveAt(@, i),
           !.discardCount = getTaskCountByStatus(backend, "Discarded",
                                discardFilters(discard.countCalls[i].cur), outcome)]
    /\ UNCHANGED <<notDiscard, counts, backend, calls>>

\* ------------------------------------------------------- task detail modal
\* TaskDetailsModal shows one task and its comments.  Its parent passes the
\* task id and whether it is open; it fetches the detail and the comment list,
\* keeps one realtime channel for each while open, and writes comments.

\* a channel of the realtime client: its topic, the table and events it is
\* bound to, and the row filter of its bindings (the task id, for the modal)
commentsChannel(id) ==
    [ topic  |-> "realtime-comments",
      table  |-> "comments",
      events |-> {"INSERT", "UPDATE", "DELETE"},
      filter |-> Some(id) ]

detailChannel(id) ==
    [ topic  |-> "realtime-task-details",
      table  |-> "projects",
      events |-> {"UPDATE"},
      filter |-> Some(id) ]

\* the channel of the store's subscription effect
projectsChannel ==
    [ topic  |-> "realtime-projects",
      table  |-> "projects",
      events |-> {"INSERT", "UPDATE"},
      filter |-> Null ]

\* the channel of the Discard page's subscription effect
discardedChannel ==
    [ topic  |-> "realtime-discarded-projects",
      table  |-> "projects",
      events |-> {"INSERT", "UPDATE"},
      filter |-> Some("status=eq.Discarded") ]

\* a cleanup that leaves the channel subscribed
keepChannel(chs, ch) == chs

\* supabase.removeChannel: the channel object leaves the client's list
RECURSIVE removeChannel(_, _)
removeChannel(chs, ch) ==
    IF chs = <<>> THEN <<>>
    ELSE IF Head(chs) = ch THEN Tail(chs)
    ELSE <<Head(chs)>> \o removeChannel(Tail(chs), ch)

\* both realtime effects of the modal start with this test
modalActive(taskId, isOpen) == taskId # Null /\ isOpen

\* the modal as its useState calls construct it, with the props of its parent;
\* `notified` is history: the tasks handed to the parent's onStatusChange;
\* `rendered` is the last render that drew the dialog: the comment list it
\* read and the thread it drew from it
modalInitial(taskId, isOpen) ==
    [ taskId            |-> taskId,
      isOpen            |-> isOpen,
      task              |-> Null,
      comment           |-> "",
      comments          |-> <<>>,
      loadingComment    |-> FALSE,
      editingLoading    |-> FALSE,
      editingCommentId  |-> Null,
      editingContent    |-> "",
      showDeleteModal   |-> FALSE,
      commentIdToDelete |-> Null,
      loadingTask       |-> FALSE,
      requests          |-> <<>>,
      notified          |-> <<>>,
      rendered          |-> Null ]

\* a remote call of the modal in flight: what it is, the task id its closure
\* holds, the comment it is about, who issued it ("open": the effect on the
\* props, "realtime": a channel callback, "write": a handler after its write,
\* "user": a handler), and whether the component that issued it is mounted;
\* a status change also holds the task of the render it was made in and the
\* filters of the parent page's render, which its callback closes over
Request(kind, taskId, id, content, by) ==
    [ kind |-> kind, taskId |-> taskId, id |-> id, content |-> content,
      by |-> by, live |-> TRUE, task |-> Null, cur |-> Null ]

\* fetchTaskDetails up to its await
fetchTaskDetails(m, taskId, by) ==
    [m EXCEPT !.loadingTask = TRUE,
              !.requests = Append(@, Request("detail", taskId, Null, "", by))]

\* fetchComments up to its await
fetchComments(m, taskId, by) ==
    [m EXCEPT !.requests = Append(@, Request("comments", taskId, Null, "", by))]

\* the effect on [taskId, isOpen] that loads the task and its comments
openEffect(m) ==
    IF modalActive(m.taskId, m.isOpen)
    THEN fetchComments(fetchTaskDetails(m, m.taskId, "open"), m.taskId, "open")
    ELSE m

\* the two subscription effects run for the props (taskId, isOpen)
subscribeEffects(chs, taskId, isOpen) ==
    IF modalActive(taskId, isOpen)
    THEN chs \o <<commentsChannel(taskId[1]), detailChannel(taskId[1])>>
    ELSE chs

\* the cleanups of the two subscription effects that ran for (taskId, isOpen)
cleanupEffects(chs, taskId, isOpen) ==
    IF modalActive(taskId, isOpen)
    THEN removeChannel(removeChannel(chs, commentsChannel(taskId[1])),
                       detailChannel(taskId[1]))
    ELSE chs

\* the values the parent passes as task id
TaskIdProps == {Null} \cup {Some(i) : i \in 1..MaxModalTasks}

\* the parent renders the modal for the first time
ModalMount(taskId, isOpen) ==
    /\ "TaskDetailsModal" \notin mounted
    /\ calls < cap.calls
    /\ calls' = calls + 1
    /\ mounted' = mounted \cup {"TaskDetailsModal"}
    /\ modal' = [openEffect(modalInitial(taskId, isOpen)) EXCEPT
                    !.requests = modal.requests \o @,
                    !.notified = modal.notified]
    /\ channels' = subscribeEffects(channels, taskId, isOpen)
    /\ UNCHANGED <<store, discard, counts, backend, commentRows>>

\* the parent passes other props: the modal re-renders, the cleanups of the
\* effects of the previous props run, then the effects for the new props
ModalProps(taskId, isOpen) ==
    /\ "TaskDetailsModal" \in mounted
    /\ <<taskId, isOpen>> # <<modal.taskId, modal.isOpen>>
    /\ calls < cap.calls
    /\ calls' = calls + 1
    /\ modal' = openEffect([modal EXCEPT !.taskId = taskId, !.isOpen = isOpen])
    /\ channels' = subscribeEffects(
                       cleanupEffects(channels, modal.taskId, modal.isOpen),
                       taskId, isOpen)
    /\ UNCHANGED <<store, discard, counts, backend, commentRows, mounted>>

\* the parent stops rendering the modal: the cleanups run and its state is
\* gone; the reads in flight have nothing left to set, the writes still reach
\* the backend
ModalUnmount ==
    /\ "TaskDetailsModal" \in mounted
    /\ mounted' = mounted \ {"TaskDetailsModal"}
    /\ channels' = cleanupEffects(channels, modal.taskId, modal.isOpen)
    /\ modal' = [modalInitial(Null, FALSE) EXCEPT
                    !.requests =
                        LET writes == SelectSeq(modal.requests,
                                LAMBDA rq : rq.kind \notin {"detail", "comments"})
                        IN  [j \in 1..Len(writes) |-> [writes[j] EXCEPT !.live = FALSE]],
                    !.notified = modal.notified]
    /\ UNCHANGED <<store, discard, counts, backend, commentRows, calls>>

\* a page that uses the store mounts or unmounts: the store's subscription
\* effect runs, or its cleanup
StoreMount ==
    /\ "useTasks" \notin mounted
    /\ mounted' = mounted \cup {"useTasks"}
    /\ channels' = Append(channels, projectsChannel)
    /\ UNCHANGED <<store, discard, modal, counts, backend, commentRows, calls>>

StoreUnmount ==
    /\ "useTasks" \in mounted
    /\ mounted' = mounted \ {"useTasks"}
    /\ channels' = removeChannel(channels, projectsChannel)
    /\ UNCHANGED <<store, discard, modal, counts, backend, commentRows, calls>>

\* the Discard page mounts or unmounts: its subscription effect, or its cleanup
DiscardMount ==
    /\ "Discard" \notin mounted
    /\ mounted' = mounted \cup {"Discard"}
    /\ channels' = Append(channels, discardedChannel)
    /\ UNCHANGED <<store, discard, modal, counts, backend, commentRows, calls>>

DiscardUnmount ==
    /\ "Discard" \in mounted
    /\ mounted' = mounted \ {"Discard"}
    /\ channels' = removeChannel(channels, discardedChannel)
    /\ UNCHANGED <<store, discard, modal, counts, backend, commentRows, calls>>

\* rpc get_task_detail: the row of the task
get_task_detail(rows, taskId) ==
    SelectSeq(rows, LAMBDA r : Some(r.id) = taskId)

Reverse(seq) == [j \in 1..Len(seq) |-> seq[Len(seq) + 1 - j]]

\* the select of fetchComments: the comments of the task, newest first (the
\* table is kept in creation order)
selectComments(rows, taskId) ==
    Reverse(SelectSeq(rows, LAMBDA r : Some(r.task_id) = taskId))

\* the id the comments table gives the next row
NewCommentId(rows) ==
    IF rows = <<>> THEN 1
    ELSE 1 + CHOOSE n \in {rows[j].id : j \in 1..Len(rows)} :
                 \A j \in 1..Len(rows) : rows[j].id <= n

\* the task a comment row belongs to, or null when the row is gone
taskOfComment(rows, id) ==
    IF \E j \in 1..Len(rows) : Some(rows[j].id) = id
    THEN Some((CHOOSE r \in SeqToSet(rows) : Some(r.id) = id).task_id)
    ELSE Null

\* the texts typed into the comment box and the edit box
Drafts == {"", "text"}

\* the realtime client hands a change event to every channel, whatever its
\* filter
RECURSIVE deliverUnfiltered(_, _, _, _, _)
deliverUnfiltered(m, chs, table, event, key) ==
    IF chs = <<>> THEN m
    ELSE LET ch  == Head(chs)
             hit == ch.table = table /\ event \in ch.events
             m1  == IF hit /\ ch.topic = "realtime-comments"
                    THEN fetchComments(m, ch.filter, "realtime")
                    ELSE IF hit /\ ch.topic = "realtime-task-details"
                    THEN fetchTaskDetails(m, ch.filter, "realtime")
                    ELSE m
         IN  deliverUnfiltered(m1, Tail(chs), table, event, key)

\* the realtime client hands a change event on a row of `table` with the
\* filtered column equal to key to every channel bound to it: the callback the
\* modal registered runs with the task id of the render that subscribed
RECURSIVE deliver(_, _, _, _, _)
deliver(m, chs, table, event, key) ==
    IF chs = <<>> THEN m
    ELSE LET ch  == Head(chs)
             hit == /\ ch.table = table /\ event \in ch.events
                    /\ ch.topic \in {"realtime-comments", "realtime-task-details"}
                    /\ ch.filter = key
             m1  == IF hit /\ ch.topic = "realtime-comments"
                    THEN fetchComments(m, ch.filter, "realtime")
                    ELSE IF hit /\ ch.topic = "realtime-task-details"
                    THEN fetchTaskDetails(m, ch.filter, "realtime")
                    ELSE m
         IN  deliver(m1, Tail(chs), table, event, key)

\* the comments table after a write
insertComment(rows, taskId, content) ==
    IF taskId = Null THEN rows
    ELSE Append(rows, [id |-> NewCommentId(rows), task_id |-> taskId[1],
                       content |-> content, edited |-> FALSE])

updateComment(rows, id, content) ==
    [j \in 1..Len(rows) |->
        IF Some(rows[j].id) = id
        THEN [rows[j] EXCEPT !.content = content, !.edited = TRUE]
        ELSE rows[j]]

deleteComment(rows, id) == SelectSeq(rows, LAMBDA r : Some(r.id) # id)

\* another client writes a comment of a task: the table changes and the event
\* is published
OtherClientComment(event, taskId) ==
    /\ calls < cap.calls
    /\ calls' = calls + 1
    /\ \/ /\ event = "INSERT"
          /\ Len(commentRows) < MaxComments
          /\ commentRows' = insertComment(commentRows, Some(taskId), "other")
       \/ /\ event = "UPDATE"
          /\ \E j \in 1..Len(commentRows) :
                /\ commentRows[j].task_id = taskId
                /\ commentRows' = updateComment(commentRows, Some(commentRows[j].id), "other")
       \/ /\ event = "DELETE"
          /\ \E j \in 1..Len(commentRows) :
                /\ commentRows[j].task_id = taskId
                /\ commentRows' = deleteComment(commentRows, Some(commentRows[j].id))
    /\ modal' = deliver(modal, channels, "comments", event, Some(taskId))
    /\ UNCHANGED <<store, discard, counts, backend, channels, mounted>>

\* another client updates the row of a task: the event is published
TaskRowEvent(taskId, status) ==
    /\ calls < cap.calls
    /\ calls' = calls + 1
    /\ backend' = update_task_status(backend, [task_id |-> taskId, new_status |-> status])
    /\ modal' = deliver(modal, channels, "projects", "UPDATE", Some(taskId))
    /\ UNCHANGED <<store, discard, counts, commentRows, channels, mounted>>

\* how a call of the supabase client ends: with data or with an error result
ClientOutcomes == {"ok", "error"}

\* fetchTaskDetails or fetchComments after its await
ModalReadSettle(i, outcome) ==
    /\ i \in 1..Len(modal.requests)
    /\ modal.requests[i].kind \in {"detail", "comments"}
    /\ LET rq   == modal.requests[i]
           data == get_task_detail(backend, rq.taskId)
           rest == [modal EXCEPT !.requests = RemoveAt(@, i)]
       IN  modal' =
             IF rq.kind = "detail"
             THEN [rest EXCEPT
                     !.task = IF outcome = "ok" /\ Len(data) > 0 THEN Some(data[1]) ELSE @,
                     !.loadingTask = FALSE]
             ELSE [rest EXCEPT
                     !.comments = IF outcome = "ok"
                                  THEN selectComments(commentRows, rq.taskId) ELSE @]
    /\ UNCHANGED <<store, discard, counts, backend, commentRows, channels, mounted, calls>>

\* the modal shows its content: it is open, the task is loaded and no detail
\* fetch is running
modalVisible ==
    /\ "TaskDetailsModal" \in mounted
    /\ modal.isOpen
    /\ modal.task # Null
    /\ ~modal.loadingTask

\* typing in the comment box
setComment(text) ==
    /\ modalVisible
    /\ text # modal.comment
    /\ modal' = [modal EXCEPT !.comment = text]
    /\ UNCHANGED <<store, discard, counts, backend, commentRows, channels, mounted, calls>>

\* handleAddComment up to the insert
handleAddComment ==
    /\ modalVisible
    /\ ~modal.loadingComment
    /\ modal.comment # ""
    /\ Len(commentRows) < MaxComments
    /\ calls < cap.calls
    /\ calls' = calls + 1
    /\ modal' = [modal EXCEPT
           !.loadingComment = TRUE,
           !.requests = Append(@, Request("insert", modal.taskId, Null, modal.comment, "user"))]
    /\ UNCHANGED <<store, discard, counts, backend, commentRows, channels, mounted>>

handleStartEdit(j) ==
    /\ modalVisible
    /\ j \in 1..Len(modal.comments)
    /\ modal.editingCommentId # Some(modal.comments[j].id)
    /\ modal' = [modal EXCEPT !.editingCommentId = Some(modal.comments[j].id),
                              !.editingContent   = modal.comments[j].content]
    /\ UNCHANGED <<store, discard, counts, backend, commentRows, channels, mounted, calls>>

\* typing in the edit box of the comment being edited
setEditingContent(text) ==
    /\ modalVisible
    /\ \E j \in 1..Len(modal.comments) : Some(modal.comments[j].id) = modal.editingCommentId
    /\ text # modal.editingContent
    /\ modal' = [modal EXCEPT !.editingContent = text]
    /\ UNCHANGED <<store, discard, counts, backend, commentRows, channels, mounted, calls>>

\* handleSaveEdit up to the update
handleSaveEdit ==
    /\ modalVisible
    /\ \E j \in 1..Len(modal.comments) : Some(modal.comments[j].id) = modal.editingCommentId
    /\ ~modal.editingLoading
    /\ modal.editingContent # ""
    /\ calls < cap.calls
    /\ calls' = calls + 1
    /\ modal' = [modal EXCEPT
           !.editingLoading = TRUE,
           !.requests = Append(@, Request("update", modal.taskId, modal.editingCommentId,
                                          modal.editingContent, "user"))]
    /\ UNCHANGED <<store, discard, counts, backend, commentRows, channels, mounted>>

confirmDelete(j) ==
    /\ modalVisible
    /\ j \in 1..Len(modal.comments)
    /\ modal.editingCommentId # Some(modal.comments[j].id)
    /\ modal.commentIdToDelete # Some(modal.comments[j].id)
    /\ modal' = [modal EXCEPT !.commentIdToDelete = Some(modal.comments[j].id),
                              !.showDeleteModal   = TRUE]
    /\ UNCHANGED <<store, discard, counts, backend, commentRows, channels, mounted, calls>>

\* proceedToDelete, and handleDeleteComment up to the delete
proceedToDelete ==
    /\ modalVisible
    /\ modal.showDeleteModal
    /\ modal.commentIdToDelete # Null
    /\ calls < cap.calls
    /\ calls' = calls + 1
    /\ modal' = [modal EXCEPT
           !.showDeleteModal   = FALSE,
           !.commentIdToDelete = Null,
           !.requests = Append(@, Request("delete", modal.taskId, modal.commentIdToDelete,
                                          "", "user"))]
    /\ UNCHANGED <<store, discard, counts, backend, commentRows, channels, mounted>>

\* a handler after its write that goes on as if the write had succeeded
afterWriteAnyway(m, rq, outcome) ==
    LET done == IF rq.kind = "insert"
                THEN [m EXCEPT !.comment = "", !.loadingComment = FALSE]
                ELSE IF rq.kind = "update"
                THEN [m EXCEPT !.editingLoading = FALSE, !.editingCommentId = Null,
                               !.editingContent = ""]
                ELSE m
    IN  fetchComments(done, rq.taskId, "write")

\* handleAddComment, handleSaveEdit or handleDeleteComment after its write
afterWrite(m, rq, outcome) ==
    IF outcome = "ok"
    THEN LET done == IF rq.kind = "insert"
                     THEN [m EXCEPT !.comment = "", !.loadingComment = FALSE]
                     ELSE IF rq.kind = "update"
                     THEN [m EXCEPT !.editingLoading = FALSE, !.editingCommentId = Null,
                                    !.editingContent = ""]
                     ELSE m
         IN  fetchComments(done, rq.taskId, "write")
    ELSE IF rq.kind = "insert" THEN [m EXCEPT !.loadingComment = FALSE]
    ELSE IF rq.kind = "update" THEN [m EXCEPT !.editingLoading = FALSE]
    ELSE m

\* the write of a comment handler settles: the table changes, the handler
\* runs to its end, and the change event is published
ModalWriteSettle(i, outcome) ==
    /\ i \in 1..Len(modal.requests)
    /\ modal.requests[i].kind \in {"insert", "update", "delete"}
    /\ LET rq    == modal.requests[i]
           rows  == IF outcome # "ok" THEN commentRows
                    ELSE IF rq.kind = "insert"
                    THEN insertComment(commentRows, rq.taskId, rq.content)
                    ELSE IF rq.kind = "update"
                    THEN updateComment(commentRows, rq.id, rq.content)
                    ELSE deleteComment(commentRows, rq.id)
           key   == IF rq.kind = "insert" THEN rq.taskId
                    ELSE taskOfComment(commentRows, rq.id)
           event == IF rq.kind = "insert" THEN "INSERT"
                    ELSE IF rq.kind = "update" THEN "UPDATE" ELSE "DELETE"
           rest  == [modal EXCEPT !.requests = RemoveAt(@, i)]
           ended == IF rq.live THEN afterWrite(rest, rq, outcome) ELSE rest
       IN  /\ commentRows' = rows
           /\ modal' = IF rows # commentRows
                       THEN deliver(ended, channels, "comments", event, key)
                       ELSE ended
    /\ UNCHANGED <<store, discard, counts, backend, channels, mounted, calls>>

\* the update of handleStatusChange: the status of the row with the id
updateStatus(rows, taskId, status) ==
    [j \in 1..Len(rows) |->
        IF Some(rows[j].id) = taskId THEN [rows[j] EXCEPT !.status = status]
        ELSE rows[j]]

\* the statuses the select of the modal offers
StatusOptions == {"To Do", "In Progress", "Done", "Discarded"}

\* handleStatusChange up to the update
handleStatusChange(newStatus) ==
    /\ modalVisible
    /\ calls < cap.calls
    /\ calls' = calls + 1
    /\ modal' = [modal EXCEPT
           !.requests = Append(@,
               [Request("status", modal.taskId, Null, newStatus, "user") EXCEPT
                   !.task = modal.task,
                   !.cur  = Some(discard.shown.cur)])]
    /\ UNCHANGED <<store, discard, counts, backend, commentRows, channels, mounted>>

\* the task handleStatusChange builds from the task of its render
updatedTask(rq) == [rq.task[1] EXCEPT !.status = rq.content]

\* handleStatusChange after an update that is taken to have succeeded
afterStatusChangeAnyway(m, rq, outcome) ==
    [m EXCEPT !.task = IF rq.live THEN Some(updatedTask(rq)) ELSE @,
              !.notified = Append(@, updatedTask(rq))]

\* handleStatusChange after its update, up to the call of onStatusChange: the
\* task is set (in a component that is still mounted) and the callback called
afterStatusChange(m, rq, outcome) ==
    IF outcome = "ok"
    THEN [m EXCEPT !.task = IF rq.live THEN Some(updatedTask(rq)) ELSE @,
                   !.notified = Append(@, updatedTask(rq))]
    ELSE m

\* the onStatusChange callback the Discard page passes, for a task that left
\* the status Discarded, up to the awaits of its two fetches; closing the modal
\* is the page's next render
onStatusChange(d, cur) ==
    fetchDiscardCount(
        fetchDiscardedTasks([d EXCEPT !.discardedTasks = <<>>], cur, TRUE, "none"),
        cur)

\* the update of handleStatusChange settles: the row changes, the handler runs
\* to its end, the Discard page (when it is the parent) runs its callback and
\* renders the modal closed, and the change event is published
ModalStatusSettle(i, outcome) ==
    /\ i \in 1..Len(modal.requests)
    /\ modal.requests[i].kind = "status"
    /\ LET rq     == modal.requests[i]
           rest   == [modal EXCEPT !.requests = RemoveAt(@, i)]
           ended  == afterStatusChange(rest, rq, outcome)
           away   == /\ outcome = "ok"
                     /\ "Discard" \in mounted
                     /\ rq.content # "Discarded"
           closes == away /\ "TaskDetailsModal" \in mounted
           closed == IF closes THEN [ended EXCEPT !.isOpen = FALSE] ELSE ended
           chs    == IF closes
                     THEN cleanupEffects(channels, modal.taskId, modal.isOpen)
                     ELSE channels
       IN  /\ backend' = IF outcome = "ok"
                         THEN updateStatus(backend, rq.taskId, rq.content)
                         ELSE backend
           /\ discard' = IF away THEN onStatusChange(discard, rq.cur[1]) ELSE discard
           /\ channels' = chs
           /\ modal' = IF outcome = "ok"
                       THEN deliver(closed, chs, "projects", "UPDATE", rq.taskId)
                       ELSE closed
    /\ UNCHANGED <<store, counts, commentRows, mounted, calls>>

\* a rendering that also draws, at the top level, the comments whose parent is
\* not in the list
RECURSIVE renderCommentsWithOrphans(_, _)
renderCommentsWithOrphans(comments, parentId) ==
    LET ids == {comments[j].id : j \in 1..Len(comments)}
        own == SelectSeq(comments, LAMBDA c :
                   \/ c.parent_id = parentId
                   \/ parentId = Null /\ c.parent_id # Null /\ c.parent_id[1] \notin ids)
    IN  [j \in 1..Len(own) |->
            [id |-> own[j].id,
             replies |-> renderCommentsWithOrphans(comments, Some(own[j].id))]]

\* renderComments: the comments whose parent_id is parentId, in the order of
\* the list, each with the rendering of its own replies inside it
RECURSIVE renderComments(_, _)
renderComments(comments, parentId) ==
    LET own == SelectSeq(comments, LAMBDA c : c.parent_id = parentId)
    IN  [j \in 1..Len(own) |->
            [id |-> own[j].id, replies |-> renderComments(comments, Some(own[j].id))]]

\* a render of the modal: the spinner while the task is loading or missing,
\* nothing shown while it is closed, else the dialog with the comment thread
ModalRender ==
    /\ "TaskDetailsModal" \in mounted
    /\ LET drawn == IF modal.loadingTask \/ modal.task = Null \/ ~modal.isOpen
                    THEN Null
                    ELSE Some([comments |-> modal.comments,
                               thread   |-> renderComments(modal.comments, Null)])
       IN  /\ drawn # modal.rendered
           /\ modal' = [modal EXCEPT !.rendered = drawn]
    /\ UNCHANGED <<store, discard, counts, backend, commentRows, channels, mounted, calls>>

\* ------------------------------------------------------- specification
Rows(n, label) == [i \in 1..n |-> NewRow(i, label)]

\* the channels the subscription effects of the mounted pages have subscribed
channelsOf(ms) ==
    (IF "useTasks" \in ms THEN <<projectsChannel>> ELSE <<>>)
    \o (IF "Discard" \in ms THEN <<discardedChannel>> ELSE <<>>)

\* the store holding s, last rendered with r, the Discard page d, the
\* components ms mounted and the modal not rendered yet
InitPages(s, r, v, rows, c, d, ms) ==
    /\ discard = d
    /\ modal = modalInitial(Null, FALSE)
    /\ mounted = ms
    /\ channels = channelsOf(ms)
    /\ commentRows = <<>>
    /\ state = s
    /\ stateRef = r
    /\ depsFresh = FALSE
    /\ loads = <<>>
    /\ updates = <<>>
    /\ counts = <<>>
    /\ backend = rows
    /\ timer = Null
    /\ optimistic = FALSE
    /\ calls = 0
    /\ variant = v
    /\ cap = c

\* the store holding s, last rendered with r; the Discard page is not mounted
InitStoreAt(s, r, v, rows, c) ==
    InitPages(s, r, v, rows, c, discardInitial, {"useTasks"})

\* the store as useReducer constructs it
InitStore(v, rows, c) == InitStoreAt(initialState, initialState, v, rows, c)

\* the specificStatus arguments callers pass: none, or the first column
SpecificStatuses == {Null, Some(statusKeyArray[1])}

\* the backend answers every count call of a refresh, or fails every one
CountOutcomes == {[k \in StatusKey |-> o] : o \in {"ok", "error"}}

\* the board drags a task it displays to a position of a column
Drags ==
    \E src \in StatusKey, dst \in StatusKey, idx \in 0..NTasks - 1 :
        \E i \in 1..Len(stateRef.tasksByStatus[src]) :
            moveTask(stateRef.tasksByStatus[src][i].id, src, dst, idx)

Init == InitStore("current", Rows(NTasks, "To Do"),
                  [loads |-> MaxLoads, updates |-> MaxUpdates, counts |-> MaxCounts,
                   calls |-> MaxCalls])

Next ==
    \/ \E a \in FilterActions : SetFilter(a)
    \/ Render
    \/ \E reset \in BOOLEAN, sp \in SpecificStatuses : loadMoreTasks(reset, sp)
    \/ \E i \in 1..cap.loads, key \in StatusKey, o \in Outcomes : FetchSettle(i, key, o)
    \/ \E i \in 1..cap.counts, os \in CountOutcomes : CountSettle(i, os)
    \/ Drags
    \/ \E i \in 1..cap.updates, o \in {"ok", "error"} : UpdateSettle(i, o)
    \/ RealtimeEvent(DebounceWait)
    \/ Tick(DebounceWait)
    \/ handleRealtimeUpdate

Spec == Init /\ [][Next]_vars

\* ---------------------------------------------------- overlapping loads
\* the filter bar and the scroll handlers at work, with loads that overlap
InitOverlap ==
    InitStore("current", Rows(NTasks, "To Do"),
              [loads |-> MaxOverlap, updates |-> MaxUpdates, counts |-> MaxCounts,
               calls |-> MaxCalls])

NextOverlap ==
    \/ \E a \in FilterActions : SetFilter(a)
    \/ Render
    \/ \E reset \in BOOLEAN, sp \in SpecificStatuses : loadMoreTasks(reset, sp)
    \/ \E i \in 1..cap.loads, key \in StatusKey, o \in Outcomes : FetchSettle(i, key, o)
    \/ \E i \in 1..cap.counts, os \in CountOutcomes : CountSettle(i, os)

SpecOverlap == InitOverlap /\ [][NextOverlap]_vars

\* ---------------------------------------------------- liveness
\* a remote call in flight settles: the backend answers or the call fails
FetchSettles ==
    \E i \in 1..cap.loads, key \in StatusKey, o \in Outcomes : FetchSettle(i, key, o)

InitLive ==
    InitStore("current", Rows(NTasks, "To Do"),
              [loads |-> MaxOverlap, updates |-> MaxUpdates, counts |-> MaxCounts,
               calls |-> MaxLiveCalls])

SpecLive == InitLive /\ [][NextOverlap]_vars /\ WF_vars(FetchSettles)

\* ---------------------------------------------------- the paging scenario
\* n To Do rows of the first category and, newest, one To Do row of another
ScenarioBackend(n) ==
    [i \in 1..n + 1 |->
        [id |-> i, status |-> statusKeyToStatusLabel(statusKeyArray[1]),
         category |-> IF i <= n THEN Categories[1] ELSE Categories[2]]]

\* the filter bar applies {category, limit}
ScenarioSetters ==
    << Act("SET_CATEGORY_FILTER", Some(Categories[1])),
       Act("SET_LIMIT", Some(ScenarioLimit)) >>

ScenarioCap == [loads |-> 1, updates |-> 0, counts |-> 1, calls |-> MaxPagingCalls]

\* the store once the filter bar has applied the scenario's filters: the current
\* hook has yet to render them (its effect then reloads), the older hook has
\* rendered them (its callers reload)
InitPaging ==
    \E v \in {"current", "older"}, n \in 0..ScenarioRows :
        IF v = "current"
        THEN InitStoreAt(dispatchAll(initialState, ScenarioSetters), initialState,
                         v, ScenarioBackend(n), ScenarioCap)
        ELSE InitStoreAt(oldDispatchAll(initialState, ScenarioSetters),
                         oldDispatchAll(initialState, ScenarioSetters),
                         v, ScenarioBackend(n), ScenarioCap)

\* the board has rendered what the store holds and no load is in flight
Rendered == state = stateRef /\ loads = <<>>

\* the board scrolls (and, with the older hook, reloads), one load after the
\* other, each call made from the rendered page; every remote call succeeds
NextPaging ==
    \/ Render
    \/ Rendered /\ loadMoreTasks(FALSE, Null)
    \/ \E key \in StatusKey : FetchSettle(1, key, "ok")
    \/ CountSettle(1, [k \in StatusKey |-> "ok"])
    \/ oldRender
    \/ \E reset \in BOOLEAN : Rendered /\ oldLoadMoreTasks(reset, Null)
    \/ oldFetchSettle(1, "ok")

SpecPaging == InitPaging /\ [][NextPaging]_vars

\* ---------------------------------------------------- the older hook at work
\* the board with the older hook: it sets filters and reloads, every call made
\* from the rendered page with no load in flight, while realtime events arrive
InitOlder ==
    InitStore("older", Rows(NTasks, "To Do"),
              [loads |-> MaxLoads, updates |-> 0, counts |-> MaxCounts,
               calls |-> MaxCalls])

NextOlder ==
    \/ \E a \in FilterActions : oldSetFilter(a)
    \/ oldRender
    \/ \E reset \in BOOLEAN, sp \in SpecificStatuses :
           Rendered /\ oldLoadMoreTasks(reset, sp)
    \/ \E i \in 1..cap.loads, o \in Outcomes : oldFetchSettle(i, o)
    \/ \E i \in 1..cap.counts, os \in CountOutcomes : oldCountSettle(i, os)
    \/ RealtimeEvent(OldDebounceWait)
    \/ Tick(OldDebounceWait)
    \/ debouncedRealtimeUpdate

SpecOlder == InitOlder /\ [][NextOlder]_vars

\* ---------------------------------------------------- realtime, liveness
\* the board loads and scrolls while realtime events arrive; the callers and the
\* backend's events may stop at any time, but what the store has started goes
\* on: timers run down and fire, remote calls settle, React renders
CountSettles == \E i \in 1..cap.counts, os \in CountOutcomes : CountSettle(i, os)

NextRealtime ==
    \/ \E reset \in BOOLEAN, sp \in SpecificStatuses : loadMoreTasks(reset, sp)
    \/ Render
    \/ FetchSettles
    \/ CountSettles
    \/ RealtimeEvent(DebounceWait)
    \/ Tick(DebounceWait)
    \/ handleRealtimeUpdate

SpecRealtimeLive ==
    /\ Init
    /\ [][NextRealtime]_vars
    /\ WF_vars(Render)
    /\ WF_vars(FetchSettles)
    /\ WF_vars(CountSettles)
    /\ WF_vars(Tick(DebounceWait))
    /\ WF_vars(handleRealtimeUpdate)

\* The Discard page, mounted over a backend whose rows are all Discarded and
\* do not change: the user sets filters and scrolls, realtime events arrive,
\* and the fetches settle in any order.
InitDiscard ==
    InitPages(initialState, initialState, "current", Rows(NTasks, "Discarded"),
              [loads |-> 0, updates |-> 0, counts |-> 0, calls |-> MaxPageCalls],
              discardMounted, {"useTasks", "Discard"})

DiscardFetchSettles ==
    \E i \in 1..MaxPageCalls + 1, o \in Outcomes : DiscardFetchSettle(i, o)

DiscardCountSettles ==
    \E i \in 1..MaxPageCalls + 1, o \in {"ok", "error"} : DiscardCountSettle(i, o)

NextDiscard ==
    \/ \E a \in FilterActions : DiscardSetFilter(a)
    \/ DiscardRender
    \/ handleScroll
    \/ DiscardRealtimeEvent
    \/ DiscardFetchSettles
    \/ DiscardCountSettles

SpecDiscard == InitDiscard /\ [][NextDiscard]_vars

\* the same page where every remote call succeeds
NextDiscardOk ==
    \/ \E a \in FilterActions : DiscardSetFilter(a)
    \/ DiscardRender
    \/ handleScroll
    \/ DiscardRealtimeEvent
    \/ \E i \in 1..MaxPageCalls + 1 : DiscardFetchSettle(i, "ok")
    \/ \E i \in 1..MaxPageCalls + 1 : DiscardCountSettle(i, "ok")

SpecDiscardOk == InitDiscard /\ [][NextDiscardOk]_vars

\* The life cycle of the components that subscribe to realtime channels: the
\* pages mount and unmount, the modal is rendered, given other props and
\* removed.  Nothing is mounted at the start.
InitChannels ==
    InitPages(initialState, initialState, "current", Rows(NTasks, "Discarded"),
              [loads |-> 0, updates |-> 0, counts |-> 0, calls |-> MaxModalCalls],
              discardInitial, {})

NextChannels ==
    \/ StoreMount
    \/ StoreUnmount
    \/ DiscardMount
    \/ DiscardUnmount
    \/ \E taskId \in TaskIdProps, isOpen \in BOOLEAN : ModalMount(taskId, isOpen)
    \/ \E taskId \in TaskIdProps, isOpen \in BOOLEAN : ModalProps(taskId, isOpen)
    \/ ModalUnmount

SpecChannels == InitChannels /\ [][NextChannels]_vars

\* The modal, rendered closed by a page over three tasks: its parent opens it
\* for a task, changes the task and closes it, the user writes comments, other
\* clients change comments and task rows, and the remote calls settle in any
\* order.
InitModal ==
    InitPages(initialState, initialState, "current", Rows(NTasks, "Discarded"),
              [loads |-> 0, updates |-> 0, counts |-> 0, calls |-> MaxModalCalls],
              discardInitial, {"TaskDetailsModal"})

ModalReadSettles ==
    \E i \in 1..2 * MaxModalCalls, o \in ClientOutcomes : ModalReadSettle(i, o)

ModalWriteSettles ==
    \E i \in 1..2 * MaxModalCalls, o \in ClientOutcomes : ModalWriteSettle(i, o)

CommentEvents ==
    \E event \in {"INSERT", "UPDATE", "DELETE"}, taskId \in 1..MaxModalTasks :
        OtherClientComment(event, taskId)

TaskRowEvents ==
    \E taskId \in 1..MaxModalTasks, status \in {"Discarded", "To Do"} :
        TaskRowEvent(taskId, status)

NextModal ==
    \/ \E taskId \in TaskIdProps, isOpen \in BOOLEAN : ModalMount(taskId, isOpen)
    \/ \E taskId \in TaskIdProps, isOpen \in BOOLEAN : ModalProps(taskId, isOpen)
    \/ ModalUnmount
    \/ CommentEvents
    \/ TaskRowEvents
    \/ ModalReadSettles
    \/ \E text \in Drafts : setComment(text)
    \/ handleAddComment
    \/ \E j \in 1..MaxComments : handleStartEdit(j)
    \/ \E text \in Drafts : setEditingContent(text)
    \/ handleSaveEdit
    \/ \E j \in 1..MaxComments : confirmDelete(j)
    \/ proceedToDelete
    \/ ModalWriteSettles

SpecModal == InitModal /\ [][NextModal]_vars

\* The modal under a parent that only records the callback: it is opened for
\* tasks and closed, the user changes the status, other clients update task
\* rows, and the remote calls settle in any order.
ModalStatusSettles ==
    \E i \in 1..2 * MaxModalCalls, o \in ClientOutcomes : ModalStatusSettle(i, o)

NextModalStatus ==
    \/ \E taskId \in TaskIdProps, isOpen \in BOOLEAN : ModalMount(taskId, isOpen)
    \/ \E taskId \in TaskIdProps, isOpen \in BOOLEAN : ModalProps(taskId, isOpen)
    \/ ModalUnmount
    \/ TaskRowEvents
    \/ ModalReadSettles
    \/ \E newStatus \in StatusOptions : handleStatusChange(newStatus)
    \/ ModalStatusSettles

SpecModalStatus == InitModal /\ [][NextModalStatus]_vars

\* The Discard page with its modal, every remote call succeeding: the user
\* sets filters and scrolls, opens the modal on a listed task, closes it or
\* changes the task's status in it; realtime events arrive; the backend answers
\* a fetch at any moment before its response settles.
OpenTask ==
    \E j \in 1..NTasks :
        /\ j <= Len(discard.discardedTasks)
        /\ \/ ModalMount(Some(discard.discardedTasks[j].id), TRUE)
           \/ ModalProps(Some(discard.discardedTasks[j].id), TRUE)

CloseModal == ModalProps(modal.taskId, FALSE)

NextDiscardModal ==
    \/ \E a \in FilterActions : DiscardSetFilter(a)
    \/ DiscardRender
    \/ handleScroll
    \/ DiscardRealtimeEvent
    \/ \E i \in 1..MaxPageCalls + 1 : DiscardFetchAnswer(i)
    \/ \E i \in 1..MaxPageCalls + 1 : DiscardFetchSettle(i, "ok")
    \/ \E i \in 1..MaxPageCalls + 1 : DiscardCountSettle(i, "ok")
    \/ OpenTask
    \/ CloseModal
    \/ \E i \in 1..2 * MaxPageCalls : ModalReadSettle(i, "ok")
    \/ \E newStatus \in StatusOptions : handleStatusChange(newStatus)
    \/ \E i \in 1..2 * MaxPageCalls : ModalStatusSettle(i, "ok")

SpecDiscardModal == InitDiscard /\ [][NextDiscardModal]_vars

\* The comment thread: the comments table holds any rows other clients wrote,
\* in creation order (distinct ids in any order, for either task, each a
\* top-level comment or a reply to a comment created before it, which may
\* have been deleted since); the modal is opened for task 1, its two fetches
\* settle and it renders.
ThreadRows ==
    [id : 1..MaxThread, task_id : 1..MaxModalTasks,
     parent_id : {Null} \cup {Some(i) : i \in 1..MaxThread},
     content : {"text"}, edited : {FALSE}]

ThreadTables ==
    UNION {{tbl \in [1..n -> ThreadRows] :
               /\ \A i, j \in 1..n : i # j => tbl[i].id # tbl[j].id
               /\ \A i, j \in 1..n : tbl[i].parent_id = Some(tbl[j].id) => j < i}
           : n \in 0..MaxThread}

InitThread ==
    /\ commentRows \in ThreadTables
    /\ modal = openEffect(modalInitial(Some(1), TRUE))
    /\ mounted = {"TaskDetailsModal"}
    /\ channels = subscribeEffects(<<>>, Some(1), TRUE)
    /\ discard = discardInitial
    /\ state = initialState
    /\ stateRef = initialState
    /\ depsFresh = FALSE
    /\ loads = <<>>
    /\ updates = <<>>
    /\ counts = <<>>
    /\ backend = Rows(MaxModalTasks, "To Do")
    /\ timer = Null
    /\ optimistic = FALSE
    /\ calls = 0
    /\ variant = "current"
    /\ cap = [loads |-> 0, updates |-> 0, counts |-> 0, calls |-> 0]

NextThread ==
    \/ \E i \in 1..2 : ModalReadSettle(i, "ok")
    \/ ModalRender

SpecThread == InitThread /\ [][NextThread]_vars

\* The comment thread of task 1 over any comments table: the rows have distinct
\* ids and any parent reference, to itself, to a later row, around a cycle or
\* to an id no row has.
AnyThreadRows ==
    [id : 1..MaxAnyThread, task_id : {1},
     parent_id : {Null} \cup {Some(i) : i \in 1..MaxAnyThread + 1},
     content : {"text"}, edited : {FALSE}]

AnyThreadTables ==
    UNION {{tbl \in [1..n -> AnyThreadRows] :
               \A i, j \in 1..n : i # j => tbl[i].id # tbl[j].id}
           : n \in 0..MaxAnyThread}

InitAnyThread ==
    /\ commentRows \in AnyThreadTables
    /\ modal = openEffect(modalInitial(Some(1), TRUE))
    /\ mounted = {"TaskDetailsModal"}
    /\ channels = subscribeEffects(<<>>, Some(1), TRUE)
    /\ discard = discardInitial
    /\ state = initialState
    /\ stateRef = initialState
    /\ depsFresh = FALSE
    /\ loads = <<>>
    /\ updates = <<>>
    /\ counts = <<>>
    /\ backend = Rows(MaxModalTasks, "To Do")
    /\ timer = Null
    /\ optimistic = FALSE
    /\ calls = 0
    /\ variant = "current"
    /\ cap = [loads |-> 0, updates |-> 0, counts |-> 0, calls |-> 0]

SpecAnyThread == InitAnyThread /\ [][NextThread]_vars

\* The category data: the projects table holds any rows (category and
\* subcategory null, empty or a name); the Discard page is mounted and its
\* loadCategoryData effect is at its await; the select succeeds or fails.
CategoryValues == {Null, Some(""), Some("Writing"), Some("Design"), Some("constructor")}

SubcategoryValues == {Null, Some(""), Some("Blog"), Some("Logo")}

CategoryTables ==
    UNION {[1..n -> [category : CategoryValues, subcategory : SubcategoryValues]]
           : n \in 0..MaxCategoryRows}

InitCategoryData ==
    /\ backend \in CategoryTables
    /\ discard = loadCategoryData(discardMounted)
    /\ modal = modalInitial(Null, FALSE)
    /\ mounted = {"useTasks", "Discard"}
    /\ channels = channelsOf({"useTasks", "Discard"})
    /\ commentRows = <<>>
    /\ state = initialState
    /\ stateRef = initialState
    /\ depsFresh = FALSE
    /\ loads = <<>>
    /\ updates = <<>>
    /\ counts = <<>>
    /\ timer = Null
    /\ optimistic = FALSE
    /\ calls = 0
    /\ variant = "current"
    /\ cap = [loads |-> 0, updates |-> 0, counts |-> 0, calls |-> 0]

NextCategoryData == \E o \in {"ok", "error"} : LoadCategoryDataSettle(o)

SpecCategoryData == InitCategoryData /\ [][NextCategoryData]_vars

\* The reducer: any actions of the store's Action type, with small payloads,
\* dispatched to the initial state one after the other.
SomeRange == [from |-> Some(1), to |-> Some(2)]

FilterSettingActions ==
    {Act("SET_STATUS_FILTER", v) : v \in {Null, Some("to-do")}}
    \cup {Act("SET_CATEGORY_FILTER", v) : v \in {Null, Some(Categories[1])}}
    \cup {Act("SET_SUBCATEGORY_FILTER", v) : v \in {Null, Some("Blog")}}
    \cup {Act("SET_DATE_RANGE", v) : v \in {NoRange, SomeRange}}
    \cup {Act("SET_LIMIT", v) : v \in {Null, Some(SmallLimit)}}
    \cup {Act("SET_SEARCH_QUERY", v) : v \in {Null, Some("text")}}
    \cup {Act("SET_SELECTED_COUNTRIES", v) : v \in {<<>>, <<"US">>}}
    \cup {Act("SET_HOURLY_BUDGET_TYPE", v) : v \in {Null, Some("hourly")}}
    \cup {Act("SET_PRICE_RANGE", v) : v \in {NoRange, SomeRange}}

OtherActions ==
    {Act("SET_LOADING", v) : v \in BOOLEAN}
    \cup {Act("SET_PAGE_BY_STATUS", [status |-> k, page |-> 1]) : k \in StatusKey}
    \cup {Act("SET_HAS_MORE_BY_STATUS", [status |-> k, hasMore |-> FALSE]) : k \in StatusKey}
    \cup {Act("SET_TOTAL_COUNT_BY_STATUS", [k \in StatusKey |-> 1])}
    \cup {Act("SET_TASKS_BY_STATUS", [k \in StatusKey |-> <<NewRow(1, statusKeyToStatusLabel(k))>>])}
    \cup {Act("UPDATE_TASKS_FOR_STATUS",
               [status |-> k, tasks |-> <<NewRow(2, statusKeyToStatusLabel(k))>>]) : k \in StatusKey}
    \cup {Act("SET_COUNTRY_OPTIONS", <<"US">>)}
    \cup {Act("RESET_PAGINATION", Null)}

ReducerActions ==
    FilterSettingActions \cup OtherActions
    \cup {Act("SET_FILTERS_CHANGED", v) : v \in BOOLEAN}

InitReducer ==
    InitStore("current", Rows(NTasks, "To Do"),
              [loads |-> 0, updates |-> 0, counts |-> 0, calls |-> MaxDispatch])

NextReducer == \E a \in ReducerActions : Dispatch(a)

SpecReducer == InitReducer /\ [][NextReducer]_vars

\* The board at work, every remote call succeeding: it loads and reloads,
\* the user drags the tasks it shows, React renders.
InitBoard ==
    InitStore("current", Rows(NTasks, "To Do"),
              [loads |-> MaxLoads, updates |-> MaxUpdates, counts |-> MaxCounts,
               calls |-> MaxBoardCalls])

NextBoard ==
    \/ Render
    \/ \E reset \in BOOLEAN, sp \in SpecificStatuses : loadMoreTasks(reset, sp)
    \/ \E i \in 1..cap.loads, key \in StatusKey : FetchSettle(i, key, "ok")
    \/ \E i \in 1..cap.counts : CountSettle(i, [k \in StatusKey |-> "ok"])
    \/ Drags
    \/ \E i \in 1..cap.updates : UpdateSettle(i, "ok")

SpecBoard == InitBoard /\ [][NextBoard]_vars

\* The filter bar at work on the board: every filter is set, among them a
\* status filter naming a column and each kind of hourly budget value (none,
\* the string "null", the empty string, a budget type); React renders and the
\* effect reloads and recounts.
QueryFilterActions ==
    {Act("SET_STATUS_FILTER", v) : v \in {Null, Some("To Do"), Some("Done")}}
    \cup {Act("SET_CATEGORY_FILTER", v) : v \in {Null, Some(Categories[1])}}
    \cup {Act("SET_SUBCATEGORY_FILTER", v) : v \in {Null, Some("Blog")}}
    \cup {Act("SET_DATE_RANGE", v) : v \in {NoRange, SomeRange}}
    \cup {Act("SET_SEARCH_QUERY", v) : v \in {Null, Some("text")}}
    \cup {Act("SET_SELECTED_COUNTRIES", v) : v \in {<<>>, <<"US">>}}
    \cup {Act("SET_HOURLY_BUDGET_TYPE", v) :
              v \in {Null, Some("null"), Some(""), Some("hourly")}}
    \cup {Act("SET_PRICE_RANGE", v) : v \in {NoRange, SomeRange}}

InitQueries ==
    InitStore("current", Rows(NTasks, "To Do"),
              [loads |-> MaxLoads, updates |-> 0, counts |-> MaxCounts,
               calls |-> MaxQueryCalls])

NextQueries ==
    \/ \E a \in QueryFilterActions : SetFilter(a)
    \/ Render
    \/ \E reset \in BOOLEAN : loadMoreTasks(reset, Null)
    \/ \E i \in 1..cap.loads, key \in StatusKey : FetchSettle(i, key, "ok")
    \/ \E i \in 1..cap.counts : CountSettle(i, [k \in StatusKey |-> "ok"])

SpecQueries == InitQueries /\ [][NextQueries]_vars

\* ------------------------------------------------------------- properties
\* nothing is in flight, pending or unrendered
Quiescent ==
    /\ state = stateRef
    /\ ~depsFresh
    /\ loads = <<>>
    /\ counts = <<>>
    /\ updates = <<>>
    /\ timer = Null

IsPrefix(a, b) == Len(a) <= Len(b) /\ SubSeq(b, 1, Len(a)) = a

\* the filter values a store state holds
FilterValues(s) ==
    << s.statusFilter, s.categoryFilter, s.subcategoryFilter, s.dateRange, s.limit,
       s.searchQuery, s.selectedCountries, s.hourlyBudgetType, s.priceRange >>

\* this step is a render
RenderStep == stateRef' # stateRef \/ (depsFresh /\ ~depsFresh')

\* C1: moveTask(id, A, B, index), for a task in the list A the store exposes and
\* 0 <= index <= length of B without the task, leaves the task out of A, puts
\* it with B's status label at position index of B, keeps the other tasks of A
\* and B in their order, and issues exactly one update_task_status call with
\* the task id and B's label; A = B included.
C1_MoveTask ==
    [][\A id \in 1..NTasks, A \in StatusKey, B \in StatusKey, index \in 0..NTasks :
         LET shown == stateRef.tasksByStatus
             held  == \E i \in 1..Len(shown[A]) : shown[A][i].id = id
             restA == SelectSeq(shown[A], LAMBDA t : t.id # id)
             restB == SelectSeq(shown[B], LAMBDA t : t.id # id)
             label == statusKeyToStatusLabel(B)
             after == state'.tasksByStatus
         IN  (held /\ index <= Len(restB) /\ moveTask(id, A, B, index)) =>
               /\ Len(after[B]) = Len(restB) + 1
               /\ after[B][index + 1].id = id
               /\ after[B][index + 1].status = label
               /\ SelectSeq(after[B], LAMBDA t : t.id # id) = restB
               /\ (A # B => after[A] = restA)
               /\ Len(updates') = Len(updates) + 1
               /\ SubSeq(updates', 1, Len(updates)) = updates
               /\ updates'[Len(updates')] = [task_id |-> id, new_status |-> label]
      ]_vars

\* an update call is in flight for a task that now sits, relabelled, at the
\* second position of a column other than the one the backend has it in
C1_Witness ==
    \E u \in 1..Len(updates), B \in StatusKey :
        /\ updates[u].new_status = statusKeyToStatusLabel(B)
        /\ Len(state.tasksByStatus[B]) >= 2
        /\ state.tasksByStatus[B][2].id = updates[u].task_id
        /\ state.tasksByStatus[B][2].status = statusKeyToStatusLabel(B)
        /\ backend[updates[u].task_id].status # statusKeyToStatusLabel(B)

\* C2: when nothing is in flight and no optimistic move is unmerged, the list
\* held for each status is a prefix, newest first, of the backend's result set
\* for that status under the store's current filters.
C2_PrefixInvariant ==
    (Quiescent /\ ~optimistic) =>
        \A k \in StatusKey :
            LET label == statusKeyToStatusLabel(k)
            IN  IsPrefix(state.tasksByStatus[k],
                         ResultSet(backend, label,
                                   countParams(label, filtered(state, label))))

\* C3: the render that follows a change of a filter value clears the three
\* lists, sets every page to 0 and every hasMore flag to true, and starts
\* exactly one reset reload, over the three statuses, with the new values.
C3_SetterResets ==
    [][(RenderStep /\ FilterValues(state) # FilterValues(stateRef)) =>
         /\ \A k \in StatusKey :
                /\ state'.tasksByStatus[k] = <<>>
                /\ state'.pageByStatus[k] = 0
                /\ state'.hasMoreByStatus[k]
         /\ Len(loads') = Len(loads) + 1
         /\ loads'[Len(loads')].reset
         /\ loads'[Len(loads')].pending = StatusKey
         /\ FilterValues(loads'[Len(loads')].cur) = FilterValues(state)
      ]_vars

\* C4: once everything the store started has settled and rendered, the dirty
\* flag a filter setter raised has been cleared by the reload it caused.
C4_DirtyCleared == Quiescent => ~state.filtersChanged

\* C5: at most one non-reset page fetch per status is in flight at any time.
C5_OneFetchPerStatus ==
    \A k \in StatusKey :
        Cardinality({i \in 1..Len(loads) : ~loads[i].reset /\ k \in loads[i].pending}) <= 1

\* C6: when the debounce timer of a burst of two or more realtime events
\* ends, the window has elapsed and exactly one reset reload is started.
C6_OneReloadPerBurst ==
    [][(timer # Null /\ timer' = Null /\ timer[1].events >= 2) =>
         /\ timer[1].left = 0
         /\ Len(loads') = Len(loads) + 1
         /\ loads'[Len(loads')].reset
      ]_vars

\* C7: with the scenario's filters and N matching To Do rows, after k loads have
\* completed the store holds the newest min(N, k * limit) matching rows; with
\* the scenario's N, hasMore is true while rows remain and false once the
\* load that brought the last rows has completed.
C7_Paging ==
    LET N    == Len(backend) - 1
        L    == ScenarioLimit
        k    == state.pageByStatus[statusKeyArray[1]]
        held == state.tasksByStatus[statusKeyArray[1]]
        more == state.hasMoreByStatus[statusKeyArray[1]]
    IN  (loads = <<>> /\ k >= 1) =>
          /\ Len(held) = Min(N, k * L)
          /\ \A j \in 1..Len(held) : held[j] = backend[N + 1 - j]
          /\ (N = ScenarioRows /\ k * L < N => more)
          /\ (N = ScenarioRows /\ (k - 1) * L < N /\ N <= k * L => ~more)

\* C8 as the specification states it: a hasMore flag that is false becomes true
\* only by a reset: in the render whose effect resets pagination after a filter
\* change, or when the reset reload of that effect, or one a caller of the hook
\* asked for, completes; never through a realtime reload or a non-reset load.
C8_HasMoreTerminal ==
    [][\A k \in StatusKey :
         (~state.hasMoreByStatus[k] /\ state'.hasMoreByStatus[k]) =>
             \/ RenderStep /\ state' # state
             \/ \E i \in 1..Len(loads) :
                    /\ loads[i].reset
                    /\ loads[i].by # "realtime"
                    /\ Len(loads') < Len(loads)
      ]_vars

\* C8: a hasMore flag that is false becomes true only in the render whose
\* effect resets pagination, or in a step that completes a page fetch of that
\* status which came back full: the last fetch of a reset reload, or the fetch
\* of that status of a non-reset loadMoreTasks.
C8_HasMoreReopens ==
    [][\A k \in StatusKey :
         (~state.hasMoreByStatus[k] /\ state'.hasMoreByStatus[k]) =>
             \/ RenderStep /\ state' # state
             \/ \E i \in 1..Len(loads) :
                   LET L == IF loads[i].cur.limit = Null THEN PAGE_SIZE
                            ELSE loads[i].cur.limit[1]
                   IN  \/ /\ loads[i].reset
                          /\ Len(loads') < Len(loads)
                          /\ Len(state'.tasksByStatus[k]) = L
                       \/ /\ ~loads[i].reset
                          /\ k \in loads[i].pending
                          /\ loads' # loads
                          /\ Len(state'.tasksByStatus[k])
                               = Len(loads[i].cur.tasksByStatus[k]) + L
      ]_vars

\* the reset reload of a realtime event has one fetch left, for a status the
\* store had paged to its end and for which the backend holds a full page: the
\* completion of that fetch sets the status's hasMore flag back to true
C8_Witness ==
    \E i \in 1..Len(loads), k \in StatusKey :
        /\ loads[i].reset
        /\ loads[i].by = "realtime"
        /\ loads[i].pending = {k}
        /\ ~state.hasMoreByStatus[k]
        /\ state.pageByStatus[k] >= 2
        /\ Len(fetchedTasks(loads[i], k, backend, "ok")) = EffectiveLimit(loads[i].cur)

\* C9: whenever the loading flag is true it is false again later, however the
\* fetches of the loads in flight end.
C9_LoadingEnds == state.loading ~> ~state.loading

\* a load whose first fetch failed has ended and the store is idle again
C9_Witness ==
    /\ ~state.loading
    /\ loads = <<>>
    /\ state.pageByStatus[statusKeyArray[1]] >= 1
    /\ state.tasksByStatus[statusKeyArray[1]] = <<>>
    /\ \E i \in 1..Len(backend) :
           backend[i].status = statusKeyToStatusLabel(statusKeyArray[1])

\* C10: the step in which an update_task_status call settles, with or without
\* an error, leaves the store's state as the move left it and issues one
\* count refresh; the step that issues the call issues no count refresh.
C10_NoRollback ==
    [][/\ Len(updates') < Len(updates) =>
            /\ state' = state
            /\ Len(counts') = Len(counts) + 1
            /\ SubSeq(counts', 1, Len(counts)) = counts
       /\ Len(updates') > Len(updates) => counts' = counts
      ]_vars

\* an update has settled without changing the backend: the count refresh is in
\* flight and the moved task still sits in the column the backend denies it
C10_Witness ==
    /\ updates = <<>>
    /\ counts # <<>>
    /\ optimistic
    /\ \E k \in StatusKey : \E j \in 1..Len(state.tasksByStatus[k]) :
           LET t == state.tasksByStatus[k][j]
           IN  /\ t.status = statusKeyToStatusLabel(k)
               /\ backend[t.id].status # t.status

\* C12: nothing cancels a reset reload: the step in which its last fetch settles
\* stores its results as the store's lists, page 1 and the hasMore flag of each
\* of its statuses, whatever filters the store holds by then and whichever
\* other reload has completed before.
C12_LastWriteWins ==
    [][\A i \in 1..Len(loads) :
         (loads[i].reset /\ loads' = RemoveAt(loads, i)) =>
             \A k \in StatusKey :
                 LET ld   == loads[i]
                     list == state'.tasksByStatus[k]
                 IN  IF k \notin SeqToSet(ld.statuses) THEN list = <<>>
                     ELSE /\ IF k \in ld.pending
                             THEN list \in {fetchedTasks(ld, k, backend, "ok"), <<>>}
                             ELSE list = ld.results[k]
                          /\ state'.pageByStatus[k] = 1
                          /\ state'.hasMoreByStatus[k]
                               = (Len(list) = EffectiveLimit(ld.cur))
      ]_vars

\* the reload started under the newer category filter has completed and is
\* rendered; the reload started before the filter was set has its last fetch
\* left, which brings a row the newer filter excludes
C12_Witness ==
    LET k == statusKeyArray[1]
    IN  /\ Len(loads) = 1
        /\ loads[1].reset
        /\ loads[1].pending = {k}
        /\ loads[1].cur.categoryFilter = Null
        /\ state.categoryFilter = Some(Categories[1])
        /\ stateRef = state
        /\ state.pageByStatus[k] = 1
        /\ state.tasksByStatus[k] # <<>>
        /\ \A j \in 1..Len(state.tasksByStatus[k]) :
               state.tasksByStatus[k][j].category = Categories[1]
        /\ \E j \in 1..Len(fetchedTasks(loads[1], k, backend, "ok")) :
               fetchedTasks(loads[1], k, backend, "ok")[j].category # Categories[1]

\* C13: every loadMoreTasks invocation that issues fetches issues them with the
\* filter values the store's state holds at the moment of the call.
C13_CurrentFilters ==
    [][Len(loads') > Len(loads) =>
           FilterValues(loads'[Len(loads')].cur) = FilterValues(state)
      ]_vars

\* C14: whenever a realtime event has armed the debounce timer, a reset reload
\* started by the realtime handler and a count refresh are in flight at some
\* later time.
C14_EventReloaded ==
    (timer # Null) ~> (counts # <<>> /\ \E i \in 1..Len(loads) : loads[i].by = "realtime")

\* C15: a step in which a list fetch fails, by an error result or an exception,
\* leaves the store as the same fetch answered by a backend without rows would,
\* and a step in which the count calls fail stores what a backend without rows
\* would count, 0; neither step starts a call, so nothing is retried.
C15_FailureIsEmpty ==
    [][/\ \A i \in 1..Len(loads), key \in StatusKey, o \in {"error", "throw"} :
            FetchSettle(i, key, o) =>
              LET ld      == loads[i]
                  none    == fetchedTasks(ld, key, <<>>, "ok")
                  results == [ld.results EXCEPT ![key] = none]
                  done    == ld.pending = {key}
              IN  /\ none = <<>>
                  /\ state' = dispatchAll(state,
                         perFetchDispatches(ld, key, none)
                         \o (IF done THEN finalDispatches(ld, results) ELSE <<>>))
                  /\ Len(loads') <= Len(loads)
                  /\ UNCHANGED <<counts, updates, timer>>
       /\ \A i \in 1..Len(counts) :
            CountSettle(i, [k \in StatusKey |-> "error"]) =>
              /\ state' = reducer(state,
                     Act("SET_TOTAL_COUNT_BY_STATUS",
                         updatedCounts(counts[i].cur, <<>>, [k \in StatusKey |-> "ok"])))
              /\ \A k \in StatusKey : state'.totalCountByStatus[k] = 0
              /\ Len(counts') < Len(counts)
              /\ UNCHANGED <<loads, updates, timer>>
      ]_vars

\* the fetch of the second page has failed: nothing is in flight, the store is
\* on page 2 with hasMore false, and holds one page although the backend has
\* more rows under the store's filters
C15_Witness ==
    LET k     == statusKeyArray[1]
        label == statusKeyToStatusLabel(k)
    IN  /\ loads = <<>>
        /\ ~state.loading
        /\ state.limit = Some(SmallLimit)
        /\ state.pageByStatus[k] = 2
        /\ ~state.hasMoreByStatus[k]
        /\ Len(state.tasksByStatus[k]) = SmallLimit
        /\ Len(ResultSet(backend, label, countParams(label, filtered(state, label))))
             > SmallLimit

\* C16: the Discard page never has more than one fetchDiscardedTasks fetch in
\* flight; the ref flag is set exactly while one is; and a call made while the
\* flag is set (by a scroll or a realtime event) starts no fetch and changes
\* nothing of the page's list, cursor, hasMore, loading or flag.
C16_OneFetch ==
    [][/\ Len(discard.fetches) <= 1
       /\ discard.loadingDiscardRef = (discard.fetches # <<>>)
       /\ (discard.loadingDiscardRef /\ (handleScroll \/ DiscardRealtimeEvent)
              => /\ discard'.fetches = discard.fetches
                 /\ discard'.discardedTasks = discard.discardedTasks
                 /\ discard'.discardPageRef = discard.discardPageRef
                 /\ discard'.hasMoreDiscard = discard.hasMoreDiscard
                 /\ discard'.loadingDiscard = discard.loadingDiscard
                 /\ discard'.loadingDiscardRef)
       /\ (DiscardFetchSettles => ~discard'.loadingDiscardRef)]_vars

\* a realtime event arrived while a page fetch was in flight, and a scroll
\* handler that saw no fetch in flight is registered: the fetch of the event
\* was not started
C16_Witness ==
    /\ discard.loadingDiscardRef
    /\ Len(discard.fetches) = 1
    /\ ~discard.fetches[1].reset
    /\ Len(discard.countCalls) >= 1
    /\ ~discard.handleScroll.loadingDiscard
    /\ discard.handleScroll.hasMoreDiscard

\* the Discard page has rendered its state and has no fetch or count in flight
DiscardQuiescent ==
    /\ discard.fetches = <<>>
    /\ discard.countCalls = <<>>
    /\ ~discard.fresh
    /\ discard.shown = renderOf(discard)

\* the first page of Discarded tasks under the filters the page's store holds
firstDiscardPage ==
    LET cur == renderedFilters(discard.hook)
    IN  fetchTasksByStatus(backend, "Discarded", discardFilters(cur),
            IF cur.limit = Null THEN DISCARD_PAGE_SIZE ELSE cur.limit[1], 0, "ok")

\* C17: when the only thing the user did on the Discard page was to change a
\* filter, then once every fetch has settled (all successfully, the backend
\* unchanged) the list is the first page of Discarded tasks under the new
\* filters, whatever was in flight when the filter changed.
C17_FilterReload ==
    (calls = 1 /\ discard.hook # initialState /\ DiscardQuiescent)
        => discard.discardedTasks = firstDiscardPage

\* C11: once every fetch and count of the Discard page has settled (all
\* successfully, the backend unchanged) and the list it holds is the first page
\* under the filters its store holds, discardCount is at least the number of
\* tasks in the list.
C11_CountCoversList ==
    (DiscardQuiescent /\ discard.discardedTasks = firstDiscardPage)
        => discard.discardCount >= Len(discard.discardedTasks)

\* the channels of the realtime client with a topic
channelsOn(topic) ==
    {i \in 1..Len(channels) : channels[i].topic = topic}

\* C19: the realtime client holds exactly the channels of what is mounted: one
\* comments channel and one task-detail channel, both filtered on the modal's
\* task id, while the modal is mounted, open and has a task id, and none of
\* either otherwise; one projects channel while the store is mounted and one
\* discarded-projects channel while the Discard page is, and none otherwise.
C19_ChannelsReleased ==
    LET active == /\ "TaskDetailsModal" \in mounted
                  /\ modalActive(modal.taskId, modal.isOpen)
    IN  /\ Cardinality(channelsOn("realtime-comments")) = IF active THEN 1 ELSE 0
        /\ Cardinality(channelsOn("realtime-task-details")) = IF active THEN 1 ELSE 0
        /\ \A i \in channelsOn("realtime-comments") \cup channelsOn("realtime-task-details") :
               channels[i].filter = modal.taskId
        /\ Cardinality(channelsOn("realtime-projects"))
               = IF "useTasks" \in mounted THEN 1 ELSE 0
        /\ Cardinality(channelsOn("realtime-discarded-projects"))
               = IF "Discard" \in mounted THEN 1 ELSE 0

\* the modal, opened for one task, was given another task id and then closed,
\* and the store's page has been left for the Discard page
C19_Witness ==
    /\ "TaskDetailsModal" \in mounted
    /\ ~modal.isOpen
    /\ \E i, j \in 1..Len(modal.requests) :
           /\ modal.requests[i].taskId # modal.requests[j].taskId
           /\ modal.requests[j].taskId = modal.taskId
    /\ mounted = {"TaskDetailsModal", "Discard"}
    /\ Len(channels) = 1

\* the modal is mounted and open for the task
openFor(taskId) ==
    /\ "TaskDetailsModal" \in mounted
    /\ modal.isOpen
    /\ modal.taskId = Some(taskId)

\* C18: a change event on the comments of a task makes the modal issue one
\* fetch of that task's comment list when it is open for the task, and an
\* update event on a task's row makes it issue one fetch of that task's detail
\* when it is open for the task; an event for any other task, or one that
\* arrives while the modal is closed, changes nothing in the modal.
C18_EventsRefetch ==
    [][/\ \A event \in {"INSERT", "UPDATE", "DELETE"}, taskId \in 1..MaxModalTasks :
             OtherClientComment(event, taskId)
                 => modal' = IF openFor(taskId)
                             THEN fetchComments(modal, Some(taskId), "realtime")
                             ELSE modal
       /\ \A taskId \in 1..MaxModalTasks, status \in {"Discarded", "To Do"} :
             TaskRowEvent(taskId, status)
                 => modal' = IF openFor(taskId)
                             THEN fetchTaskDetails(modal, Some(taskId), "realtime")
                             ELSE modal]_vars

\* the modal is open for a task; an event on its comments and an event on its
\* row have each started a fetch, and a comment written for another task has
\* started none
C18_Witness ==
    /\ "TaskDetailsModal" \in mounted
    /\ modalActive(modal.taskId, modal.isOpen)
    /\ \E i \in 1..Len(modal.requests) :
           /\ modal.requests[i].by = "realtime"
           /\ modal.requests[i].kind = "comments"
    /\ \E i \in 1..Len(modal.requests) :
           /\ modal.requests[i].by = "realtime"
           /\ modal.requests[i].kind = "detail"
    /\ \A i \in 1..Len(modal.requests) : modal.requests[i].taskId = modal.taskId
    /\ \E j \in 1..Len(commentRows) : Some(commentRows[j].task_id) # modal.taskId

\* the remote calls in flight that satisfy a test
requestsWhere(m, Test(_)) == {j \in 1..Len(m.requests) : Test(m.requests[j])}

isWrite(rq) == rq.kind \in {"insert", "update", "delete"}

isHandlerFetch(rq) == rq.kind = "comments" /\ rq.by = "write"

\* C20: the add, save-edit and delete handlers each issue one write; when the
\* write succeeds the handler issues one fetch of the comment list for its
\* task and no further write, add clears the draft and save-edit leaves edit
\* mode; when the write fails the handler issues nothing, and the comment
\* list, the draft, the edit mode and the table stay as they were.
C20_WriteThenRefetch ==
    [][/\ (handleAddComment \/ handleSaveEdit \/ proceedToDelete)
             => /\ Len(modal'.requests) = Len(modal.requests) + 1
                /\ SubSeq(modal'.requests, 1, Len(modal.requests)) = modal.requests
                /\ isWrite(modal'.requests[Len(modal'.requests)])
       /\ \A i \in 1..Len(modal.requests), o \in ClientOutcomes :
             (ModalWriteSettle(i, o) /\ modal.requests[i].live)
                 => LET rq == modal.requests[i]
                    IN  IF o = "ok"
                        THEN /\ Cardinality(requestsWhere(modal', isHandlerFetch))
                                  = Cardinality(requestsWhere(modal, isHandlerFetch)) + 1
                             /\ \E j \in requestsWhere(modal', isHandlerFetch) :
                                    /\ modal'.requests[j].taskId = rq.taskId
                                    /\ j >= Len(modal.requests)
                             /\ Cardinality(requestsWhere(modal', isWrite))
                                  = Cardinality(requestsWhere(modal, isWrite)) - 1
                             /\ rq.kind = "insert" => modal'.comment = ""
                             /\ rq.kind = "update" => modal'.editingCommentId = Null
                        ELSE /\ modal'.requests = RemoveAt(modal.requests, i)
                             /\ modal'.comments = modal.comments
                             /\ modal'.comment = modal.comment
                             /\ modal'.editingCommentId = modal.editingCommentId
                             /\ modal'.editingContent = modal.editingContent
                             /\ commentRows' = commentRows]_vars

\* a save-edit has succeeded: the row is edited in the table, the modal has
\* left edit mode and the handler's fetch of the comment list is in flight
C20_Witness ==
    /\ \E j \in 1..Len(commentRows) :
           commentRows[j].edited /\ commentRows[j].content = "text"
    /\ modal.editingCommentId = Null
    /\ ~modal.editingLoading
    /\ Cardinality(requestsWhere(modal, isHandlerFetch)) = 1
    /\ requestsWhere(modal, isWrite) = {}

isStatusChange(rq) == rq.kind = "status"

\* C21: handleStatusChange issues one update; when the update succeeds the
\* row takes the new status, the modal's task has the new status and the
\* parent's onStatusChange is called once, with the task of the handler's
\* render carrying the new status; when it fails the row, the modal's task
\* and the calls of onStatusChange are unchanged; no settle issues an update.
C21_StatusChange ==
    [][/\ \A newStatus \in StatusOptions :
             handleStatusChange(newStatus)
                 => /\ Len(modal'.requests) = Len(modal.requests) + 1
                    /\ SubSeq(modal'.requests, 1, Len(modal.requests)) = modal.requests
                    /\ isStatusChange(modal'.requests[Len(modal'.requests)])
                    /\ backend' = backend
       /\ \A i \in 1..Len(modal.requests), o \in ClientOutcomes :
             (ModalStatusSettle(i, o) /\ modal.requests[i].live)
                 => LET rq == modal.requests[i]
                    IN  /\ Cardinality(requestsWhere(modal', isStatusChange))
                             = Cardinality(requestsWhere(modal, isStatusChange)) - 1
                        /\ IF o = "ok"
                           THEN /\ modal'.task # Null
                                /\ modal'.task[1].status = rq.content
                                /\ modal'.notified
                                     = Append(modal.notified,
                                              [rq.task[1] EXCEPT !.status = rq.content])
                                /\ \A j \in 1..Len(backend') :
                                       Some(backend'[j].id) = rq.taskId
                                           => backend'[j].status = rq.content
                           ELSE /\ modal'.task = modal.task
                                /\ modal'.notified = modal.notified
                                /\ backend' = backend]_vars

\* a status change to "To Do" has succeeded: the row and the modal's task have
\* the new status and the parent was told once
C21_Witness ==
    /\ "TaskDetailsModal" \in mounted
    /\ modal.task # Null
    /\ modal.task[1].status = "To Do"
    /\ Len(modal.notified) = 1
    /\ modal.notified[1].status = "To Do"
    /\ \E j \in 1..Len(backend) :
           backend[j].id = modal.task[1].id /\ backend[j].status = "To Do"
    /\ requestsWhere(modal, isStatusChange) = {}

\* C22: on the Discard page, where statuses change only through the modal and
\* every remote call succeeds, once the page is at rest every task in the
\* discard list has the status Discarded in the backend: a task that was moved
\* away from Discarded is no longer listed.
C22_MovedTaskLeaves ==
    DiscardQuiescent
        => \A j \in 1..Len(discard.discardedTasks) :
               \E r \in 1..Len(backend) :
                   /\ backend[r].id = discard.discardedTasks[j].id
                   /\ backend[r].status = "Discarded"

\* the places of a rendering: <<parent, id>> for every element drawn, parent
\* being the id of the element it is drawn inside (null at the top level)
RECURSIVE placements(_, _)
placements(trees, parentId) ==
    IF trees = <<>> THEN <<>>
    ELSE <<<<parentId, Head(trees).id>>>>
         \o placements(Head(trees).replies, Some(Head(trees).id))
         \o placements(Tail(trees), parentId)

idsOf(seq) == [j \in 1..Len(seq) |-> seq[j].id]

\* C23: whenever the modal has drawn the thread of its comment list, (a) a
\* comment with a parent that is in the list is drawn exactly once, directly
\* inside that parent, (b) the comments drawn at the top level are exactly
\* those with a null parent, and (c) the comments drawn inside one element (or
\* at the top level) are in the order of the list.
C23_Nested ==
    modal.rendered # Null =>
        LET cs     == modal.rendered[1].comments
            thread == modal.rendered[1].thread
            places == placements(thread, Null)
            at(c)  == SelectSeq(places, LAMBDA pl : pl[2] = c.id)
        IN  /\ \A j \in 1..Len(cs) :
                   (cs[j].parent_id # Null
                        /\ \E k \in 1..Len(cs) : Some(cs[k].id) = cs[j].parent_id)
                   => at(cs[j]) = <<<<cs[j].parent_id, cs[j].id>>>>
            /\ idsOf(thread)
                   = idsOf(SelectSeq(cs, LAMBDA c : c.parent_id = Null))
            /\ \A parentId \in {places[j][1] : j \in 1..Len(places)} :
                   LET drawn == SelectSeq(places, LAMBDA pl : pl[1] = parentId)
                       ids   == {drawn[j][2] : j \in 1..Len(drawn)}
                   IN  [j \in 1..Len(drawn) |-> drawn[j][2]]
                           = idsOf(SelectSeq(cs, LAMBDA c : c.id \in ids))

\* the elements of a sequence without their repetitions, in the order of
\* their first appearance
RECURSIVE distinctInOrder(_)
distinctInOrder(seq) ==
    IF seq = <<>> THEN <<>>
    ELSE LET init == distinctInOrder(SubSeq(seq, 1, Len(seq) - 1))
             last == seq[Len(seq)]
         IN  IF \E j \in 1..Len(init) : init[j] = last THEN init ELSE Append(init, last)

\* C24: once the category load of the Discard page has ended, categoryOptions
\* is the distinct non-empty categories of the rows in first-appearance order,
\* the keys of subcategoryMap are exactly those categories, the value of a
\* category is a duplicate-free list of exactly the non-empty subcategories of
\* the rows with that category, and a missing row set gives empty results.
C24_CategoryData ==
    discard.loadCategoryData \in {"done", "rejected"} =>
        LET rows  == IF discard.categoryRows = Null THEN <<>>
                     ELSE discard.categoryRows[1]
            named == SelectSeq(rows, LAMBDA r : r.category # Null /\ r.category # Some(""))
            cats  == distinctInOrder([j \in 1..Len(named) |-> named[j].category[1]])
            opts  == discard.categoryOptions
            map   == discard.subcategoryMap
            subs(c) == {rows[j].subcategory[1] :
                           j \in {k \in 1..Len(rows) :
                                     /\ rows[k].category = Some(c)
                                     /\ rows[k].subcategory # Null
                                     /\ rows[k].subcategory # Some("")}}
        IN  /\ opts = cats
            /\ DOMAIN map = {cats[j] : j \in 1..Len(cats)}
            /\ \A c \in DOMAIN map :
                   /\ {map[c][j] : j \in 1..Len(map[c])} = subs(c)
                   /\ \A i, j \in 1..Len(map[c]) : i # j => map[c][i] # map[c][j]

\* the filter field a filter-setting action writes
filterFieldOf(type) ==
    CASE type = "SET_STATUS_FILTER" -> "statusFilter"
      [] type = "SET_CATEGORY_FILTER" -> "categoryFilter"
      [] type = "SET_SUBCATEGORY_FILTER" -> "subcategoryFilter"
      [] type = "SET_DATE_RANGE" -> "dateRange"
      [] type = "SET_LIMIT" -> "limit"
      [] type = "SET_SEARCH_QUERY" -> "searchQuery"
      [] type = "SET_SELECTED_COUNTRIES" -> "selectedCountries"
      [] type = "SET_HOURLY_BUDGET_TYPE" -> "hourlyBudgetType"
      [] type = "SET_PRICE_RANGE" -> "priceRange"

\* C25: a dispatched filter-setting action leaves filtersChanged true, its own
\* filter field equal to its payload and every other field of the state as it
\* was; a dispatched SET_LOADING, SET_PAGE_BY_STATUS, SET_HAS_MORE_BY_STATUS,
\* SET_TOTAL_COUNT_BY_STATUS, SET_TASKS_BY_STATUS, UPDATE_TASKS_FOR_STATUS,
\* SET_COUNTRY_OPTIONS or RESET_PAGINATION leaves filtersChanged and every
\* filter field as they were.
C25_ReducerFrame ==
    [][\A a \in ReducerActions :
         Dispatch(a) =>
             /\ a \in FilterSettingActions =>
                    /\ state'.filtersChanged
                    /\ state'[filterFieldOf(a.type)] = a.payload
                    /\ \A f \in DOMAIN state \ {filterFieldOf(a.type), "filtersChanged"} :
                           state'[f] = state[f]
             /\ a \in OtherActions =>
                    /\ state'.filtersChanged = state.filtersChanged
                    /\ FilterValues(state') = FilterValues(state)
      ]_vars

\* a filter was set, then a page index was stored while the filters were
\* still marked changed
C25_Witness ==
    /\ calls = 2
    /\ state.filtersChanged
    /\ state.limit = Some(SmallLimit)
    /\ state.pageByStatus["done"] = 1

\* the tasks the store holds, list after list, and their ids
heldTasks(s) ==
    s.tasksByStatus[statusKeyArray[1]] \o s.tasksByStatus[statusKeyArray[2]]
        \o s.tasksByStatus[statusKeyArray[3]]

heldIds(s) == [j \in 1..Len(heldTasks(s)) |-> heldTasks(s)[j].id]

\* C26: in every reachable state of the store no task id occurs twice, neither
\* within one status list nor in two different lists.
C26_NoDuplicateIds ==
    \A i, j \in 1..Len(heldIds(state)) : i # j => heldIds(state)[i] # heldIds(state)[j]

\* C27: when a reload loadMoreTasks(true, S) for one status S settles, the
\* list, the page index and the hasMore flag of the two other statuses are as
\* they were before.
C27_ResetOneStatus ==
    [][\A i \in 1..MaxLoads, S \in StatusKey, o \in Outcomes :
         (/\ i <= Len(loads)
          /\ loads[i].reset
          /\ loads[i].statuses = <<S>>
          /\ FetchSettle(i, S, o))
         => \A k \in StatusKey \ {S} :
                /\ state'.tasksByStatus[k] = state.tasksByStatus[k]
                /\ state'.pageByStatus[k] = state.pageByStatus[k]
                /\ state'.hasMoreByStatus[k] = state.hasMoreByStatus[k]
      ]_vars

\* the ids of a list as a bag
idBag(list) ==
    LET ids == {list[j].id : j \in 1..Len(list)}
    IN  [id \in ids |-> Cardinality({j \in 1..Len(list) : list[j].id = id})]

\* C28: a moveTask(id, A, B, index) for a task held in the list A the store
\* exposes leaves the list of the third status as exposed, the filters, the
\* page indexes and the hasMore flags of the store as they were, and the
\* store then holds the same multiset of task ids as the lists it exposed; a
\* moveTask for a task that is not in list A changes nothing, issues no remote
\* call and starts no count refresh.
C28_MoveTaskFrame ==
    [][\A id \in 1..NTasks, A \in StatusKey, B \in StatusKey, index \in 0..NTasks :
         LET held == \E i \in 1..Len(stateRef.tasksByStatus[A]) :
                         stateRef.tasksByStatus[A][i].id = id
         IN  moveTask(id, A, B, index) =>
               IF held
               THEN /\ \A k \in StatusKey \ {A, B} :
                          state'.tasksByStatus[k] = stateRef.tasksByStatus[k]
                    /\ FilterValues(state') = FilterValues(state)
                    /\ state'.pageByStatus = state.pageByStatus
                    /\ state'.hasMoreByStatus = state.hasMoreByStatus
                    /\ idBag(heldTasks(state')) = idBag(heldTasks(stateRef))
               ELSE UNCHANGED vars
      ]_vars

\* a list of tasks without their status labels
unlabelled(list) == [j \in 1..Len(list) |-> [list[j] EXCEPT !.status = ""]]

\* the position of the first task with the id in a list, counted from 0
indexOf(list, id) ==
    (CHOOSE j \in 1..Len(list) :
         list[j].id = id /\ \A k \in 1..j - 1 : list[k].id # id) - 1

\* the lists after moveTask(id, A, B, j) and then moveTask(id, B, A, i), each
\* called on the lists the call before it stored
roundTrip(cur, id, A, B, j, i) ==
    LET there == [cur EXCEPT !.tasksByStatus = movedLists(cur, id, A, B, j)]
    IN  movedLists(there, id, B, A, i)

\* C29: for the lists the board shows, a task id held in list A at index i, a
\* status B and an index j valid in B, moveTask(id, A, B, j) followed by
\* moveTask(id, B, A, i) gives back the three lists with the same tasks in the
\* same order, status labels apart.
C29_RoundTrip ==
    \A A \in StatusKey, B \in StatusKey, id \in 1..NTasks, j \in 0..NTasks :
        LET lists == stateRef.tasksByStatus
        IN  (/\ findTask(lists[A], id) # Null
             /\ j <= Len(withoutTask(lists[B], id)))
            => LET back == roundTrip(stateRef, id, A, B, j, indexOf(lists[A], id))
               IN  \A k \in StatusKey : unlabelled(back[k]) = unlabelled(lists[k])

\* C30: whenever a page fetch started by loadMoreTasks is in flight, the
\* loading flag of the store is true.
C30_LoadingWhileInFlight ==
    (\E i \in 1..Len(loads) : loads[i].pending # {}) => state.loading

\* C31: a loadMoreTasks(false) over all statuses puts a page fetch in flight
\* only for the statuses that have more to load in the state it reads: hasMore
\* true and fewer tasks held than the total count.
C31_FetchOnlyWhereMore ==
    [][(/\ Len(loads') = Len(loads) + 1
        /\ ~loads'[Len(loads')].reset
        /\ loads'[Len(loads')].statuses = statusKeyArray)
       => \A k \in loads'[Len(loads')].pending :
              /\ stateRef.hasMoreByStatus[k]
              /\ Len(stateRef.tasksByStatus[k]) < stateRef.totalCountByStatus[k]
      ]_vars

\* the filter values of a snapshot, as the object a query takes
ownFilters(cur) ==
    [ categoryFilter    |-> cur.categoryFilter,
      subcategoryFilter |-> cur.subcategoryFilter,
      dateRange         |-> cur.dateRange,
      searchQuery       |-> cur.searchQuery,
      selectedCountries |-> cur.selectedCountries,
      hourlyBudgetType  |-> cur.hourlyBudgetType,
      priceFrom         |-> cur.priceRange.from,
      priceTo           |-> cur.priceRange.to ]

\* no filter at all
noFilters ==
    [ categoryFilter    |-> Null,
      subcategoryFilter |-> Null,
      dateRange         |-> NoRange,
      searchQuery       |-> Null,
      selectedCountries |-> <<>>,
      hourlyBudgetType  |-> Null,
      priceFrom         |-> Null,
      priceTo           |-> Null ]

\* the filters a status is to be queried with under a status filter
filtersFor(cur, label) ==
    IF cur.statusFilter = Some(label) THEN ownFilters(cur) ELSE noFilters

\* C32: while a status filter is set, every list call and every count call in
\* flight carries the other filters for the status the status filter names and
\* no filter for any other status, so the list call and the count call of a
\* status are both filtered or both unfiltered.
C32_FiltersFollowStatusFilter ==
    /\ \A i \in 1..Len(loads) : \A key \in loads[i].pending :
          LET cur   == loads[i].cur
              label == statusKeyToStatusLabel(key)
          IN  cur.statusFilter \notin {Null, Some("")} =>
                  sentListParams(loads[i], key) =
                      listParams(label, filtersFor(cur, label), EffectiveLimit(cur),
                                 pageOf(loads[i], key) * EffectiveLimit(cur))
    /\ \A i \in 1..Len(counts) : \A key \in StatusKey :
          LET cur   == counts[i].cur
              label == statusKeyToStatusLabel(key)
          IN  cur.statusFilter \notin {Null, Some("")} =>
                  sentCountParams(counts[i], key) =
                      countParams(label, filtersFor(cur, label))

\* a list call and a count call are in flight under a status filter with a
\* category filter beside it: those of the named status carry the category,
\* those of another status carry none
C32_Witness ==
    \E i \in 1..Len(loads), j \in 1..Len(counts) :
        /\ loads[i].cur.statusFilter = Some("To Do")
        /\ counts[j].cur.statusFilter = Some("To Do")
        /\ loads[i].cur.categoryFilter # Null
        /\ {"to-do", "done"} \subseteq loads[i].pending
        /\ sentListParams(loads[i], "to-do").category_filter # Null
        /\ sentCountParams(counts[j], "to-do").category_filter # Null
        /\ sentListParams(loads[i], "done").category_filter = Null
        /\ sentCountParams(counts[j], "done").category_filter = Null

\* the filter parameters the list call and the count call have in common
sharedOf(p) ==
    [n \in {"category_filter", "subcategory_filter", "date_from", "date_to",
            "search_query", "country_filter", "hourly_budget_type",
            "price_from", "price_to"} |-> p[n]]

\* C33: a list call and a count call in flight for the same status under the
\* same filter set carry the same values in the filter parameters they share.
C33_SameSharedParams ==
    \A i \in 1..Len(loads), j \in 1..Len(counts) : \A key \in loads[i].pending :
        (/\ ownFilters(loads[i].cur) = ownFilters(counts[j].cur)
         /\ loads[i].cur.statusFilter = counts[j].cur.statusFilter)
        => sharedOf(sentListParams(loads[i], key)) = sharedOf(sentCountParams(counts[j], key))

\* C34: when the debounce timer fires while the loading flag the store shows
\* (the rendered state, which stateRef.current holds) is true, no load and no
\* count refresh is started; when it fires while the flag is false, exactly
\* one reset reload of all statuses and one count refresh are started.
C34_GuardedByLoading ==
    [][(timer # Null /\ timer' = Null) =>
         IF stateRef.loading
         THEN loads' = loads /\ counts' = counts
         ELSE /\ Len(loads') = Len(loads) + 1
              /\ SubSeq(loads', 1, Len(loads)) = loads
              /\ loads'[Len(loads')].reset
              /\ loads'[Len(loads')].statuses = statusKeyArray
              /\ loads'[Len(loads')].pending = StatusKey
              /\ Len(counts') = Len(counts) + 1
              /\ SubSeq(counts', 1, Len(counts)) = counts
      ]_vars

\* the timer has fired while nothing was loading: the reload and the count
\* refresh the handler started are in flight
C34_Witness ==
    /\ timer = Null
    /\ \E i \in 1..Len(loads) : loads[i].by = "realtime" /\ loads[i].pending = StatusKey
    /\ counts # <<>>

\* C35: the discard list never holds two entries with the same task id.
C35_DiscardIdsDistinct ==
    \A i, j \in 1..Len(discard.discardedTasks) :
        discard.discardedTasks[i].id = discard.discardedTasks[j].id => i = j

\* a page fetched after the first one has settled and brought rows, yet the
\* list holds fewer tasks than two pages bring: the page held an id the list
\* already had, and it was left out
C35_Witness ==
    /\ discard.fetches = <<>>
    /\ discard.discardPageRef = 2
    /\ Len(discard.discardedTasks) = 2
    /\ ~discard.hasMoreDiscard
    /\ \E i \in 1..2 : discard.discardedTasks[i].id = 1

\* C36: while the modal is open for a task and none of its fetches is in
\* flight, the task it holds is the task with the modal's current task id.
C36_ShowsCurrentTask ==
    (/\ "TaskDetailsModal" \in mounted
     /\ modal.isOpen
     /\ modal.taskId # Null
     /\ \A i \in 1..Len(modal.requests) :
            modal.requests[i].kind \notin {"detail", "comments"})
    => (modal.task # Null => modal.task[1].id = modal.taskId[1])

\* the ids of the comments a chain of parent references connects to a
\* top-level comment, grown from the set S
RECURSIVE connectedFrom(_, _)
connectedFrom(cs, S) ==
    LET T == S \cup {cs[j].id : j \in {k \in 1..Len(cs) :
                        cs[k].parent_id # Null /\ cs[k].parent_id[1] \in S}}
    IN  IF T = S THEN S ELSE connectedFrom(cs, T)

connected(cs) ==
    connectedFrom(cs, {cs[j].id : j \in {k \in 1..Len(cs) : cs[k].parent_id = Null}})

\* C37: for every comment list, whatever its parent references, the modal
\* that shows its content completes the rendering of the thread; the thread
\* it has drawn holds no comment twice and holds exactly the comments that a
\* chain of parent references connects to a top-level comment.
C37_RendersConnectedOnce ==
    /\ (modal.task # Null /\ ~modal.loadingTask /\ modal.rendered = Null)
           => ENABLED ModalRender
    /\ modal.rendered # Null =>
           LET cs     == modal.rendered[1].comments
               places == placements(modal.rendered[1].thread, Null)
           IN  /\ \A i, j \in 1..Len(places) : places[i][2] = places[j][2] => i = j
               /\ {places[j][2] : j \in 1..Len(places)} = connected(cs)

\* the thread is drawn for a list of four comments: a top-level one, one whose
\* parent no comment of the list has, and two that are each other's parent
C37_Witness ==
    /\ modal.rendered # Null
    /\ LET cs  == modal.rendered[1].comments
           ids == {cs[j].id : j \in 1..Len(cs)}
       IN  /\ Len(cs) = 4
           /\ \E a, b, c, d \in 1..4 :
                  /\ cs[a].parent_id = Null
                  /\ cs[b].parent_id # Null /\ cs[b].parent_id[1] \notin ids
                  /\ c # d
                  /\ cs[c].parent_id = Some(cs[d].id)
                  /\ cs[d].parent_id = Some(cs[c].id)
           /\ Len(modal.rendered[1].thread) = 1

====
